---- MODULE Spec2Model ----
(***************************************************************************)
(* State-machine model of src/app.py: the controller heartbeat/snapshot    *)
(* reconciliation, the capture loop, the AprilTag detection loop and the   *)
(* MJPEG streaming handlers.                                               *)
(*                                                                         *)
(* Time is counted in milliseconds (time.time() * 1000), so the heartbeat  *)
(* TTL of 0.8 s is 800.  Python's None for an optional integer is the      *)
(* empty sequence << >> and a present value n is << n >>.                  *)
(***************************************************************************)
EXTENDS Integers, Sequences, FiniteSets, TLC

(***************************************************************************)
(* Program constants (src/app.py:25-28, 145, 166).                         *)
(***************************************************************************)
CONTROLLER_HEARTBEAT_TTL_SEC == 800
CONTROLLER_SUPPORTED_TOOLS == {"draw", "dot", "note", "eraser", "selection"}
CONTROLLER_NOTE_TEXT_MAX_LEN == 500
CONTROLLER_CLIENT_ID_MAX_LEN == 64
TRIGGER_TAG_ID_MIN == 1
TRIGGER_TAG_ID_MAX == 9999
NOTE_FINALIZE_TICK_MAX == 1000000000

(***************************************************************************)
(* Bounds of the model.                                                    *)
(***************************************************************************)
MaxClock == 1000        \* the clock is read at instants up to this many ms
MaxCtlSeq == 2          \* heartbeats are accepted while controller_state_seq is below this
MaxResolveSeq == 3      \* the same, where the resolution of candidates is examined

\* The instants at which the clock is read: t0, t0 + 0.79*TTL, t0 + TTL,
\* t0 + 1.01*TTL and t0 + 1 s, repeated every second.
InstantOffsets == {0, 632, 800, 808}
Instants == {t \in 0..MaxClock : (t % 1000) \in InstantOffsets}

None == << >>
Some(x) == << x >>

(***************************************************************************)
(* JSON values of a request body.  t is the JSON type; a "str" is the      *)
(* literal s; a "rep" is the string made of i copies of the character s;   *)
(* "int" and "bool" carry their value in i (true = 1).                     *)
(***************************************************************************)
JNull == [t |-> "null", s |-> "", i |-> 0]
JBool(b) == [t |-> "bool", s |-> "", i |-> IF b THEN 1 ELSE 0]
JInt(n) == [t |-> "int", s |-> "", i |-> n]
JStr(str) == [t |-> "str", s |-> str, i |-> 0]
JRep(ch, n) == [t |-> "rep", s |-> ch, i |-> n]
\* The float infinity, which json.loads yields for Infinity and for 1e999.
JInf == [t |-> "inf", s |-> "", i |-> 0]

\* A text value: n copies of the character s; the empty string is EmptyText.
EmptyText == [s |-> "", n |-> 0]
Text(ch, n) == IF n = 0 THEN EmptyText ELSE [s |-> ch, n |-> n]

\* Python bool(x).
Truthy(j) ==
  CASE j.t = "null" -> FALSE
    [] j.t = "bool" -> j.i = 1
    [] j.t = "int" -> j.i # 0
    [] j.t = "str" -> j.s # ""
    [] j.t = "rep" -> j.i > 0
    [] j.t = "inf" -> TRUE

\* Python int(x) raises OverflowError, which the sanitizers do not catch
\* (lines 143 and 162 catch TypeError and ValueError).
IntOverflows(j) == j.t = "inf"

\* The string literals that int() parses, with their values.
NumericLiterals == {<<"7", 7>>, <<" 8 ", 8>>, <<"0", 0>>}

\* Python int(x): Some(n), or None when it raises TypeError or ValueError;
\* for x with IntOverflows(x) it raises OverflowError and yields nothing.
PyInt(j) ==
  CASE j.t = "null" -> None
    [] j.t = "bool" -> Some(j.i)
    [] j.t = "int" -> Some(j.i)
    [] j.t = "str" ->
         IF \E p \in NumericLiterals : p[1] = j.s
         THEN Some((CHOOSE p \in NumericLiterals : p[1] = j.s)[2])
         ELSE None
    [] j.t = "rep" -> None

\* str.strip().lower() on the string literals the model uses.
StripLower(str) ==
  CASE str = " Draw " -> "draw"
    [] str = "NOTE" -> "note"
    [] OTHER -> str

\* str.strip() on the string literals the model uses.
Strip(str) ==
  CASE str = " a " -> "a"
    [] str = "  " -> ""
    [] OTHER -> str

\* The length of a string literal the model uses; "x64" and "x65" stand for
\* the strings of 64 and of 65 characters x.
StrLen(str) ==
  CASE str = "" -> 0
    [] str = "a" -> 1
    [] str = "b" -> 1
    [] str = "c" -> 1
    [] str = "a!" -> 2
    [] str = "x64" -> 64
    [] str = "x65" -> 65
    [] OTHER -> 1

\* Whether every character of the literal is in [A-Za-z0-9_-].
OnlyTokenChars(str) == str # "a!"

\* CONTROLLER_CLIENT_ID_RE.fullmatch: ^[A-Za-z0-9_-]{1,64}$
ClientIdFullMatch(str) ==
  /\ OnlyTokenChars(str)
  /\ StrLen(str) >= 1
  /\ StrLen(str) <= CONTROLLER_CLIENT_ID_MAX_LEN

sanitize_controller_client_id(raw) ==
  IF raw.t # "str" THEN None
  ELSE IF Strip(raw.s) = "" THEN None
  ELSE IF ~ClientIdFullMatch(Strip(raw.s)) THEN None
  ELSE Some(Strip(raw.s))

sanitize_controller_trigger_tag_id(raw) ==
  LET n == PyInt(raw) IN
  IF n = None THEN None
  ELSE IF n[1] < TRIGGER_TAG_ID_MIN \/ n[1] > TRIGGER_TAG_ID_MAX THEN None
  ELSE n

sanitize_controller_note_text(raw) ==
  CASE raw.t = "null" -> EmptyText
    [] raw.t = "rep" ->
         IF raw.i > CONTROLLER_NOTE_TEXT_MAX_LEN
         THEN Text(raw.s, CONTROLLER_NOTE_TEXT_MAX_LEN)
         ELSE Text(raw.s, raw.i)
    [] raw.t = "str" -> Text(raw.s, IF raw.s = "" THEN 0 ELSE 1)
    [] raw.t = "int" -> Text(ToString(raw.i), 1)
    [] raw.t = "bool" -> Text(IF raw.i = 1 THEN "True" ELSE "False", 1)
    [] raw.t = "inf" -> Text("inf", 1)

\* sanitize_controller_note_finalize_tick without the upper clamp.
sanitize_controller_note_finalize_tick_Unclamped(raw) ==
  LET n == PyInt(raw) IN
  IF n = None THEN 0 ELSE IF n[1] < 0 THEN 0 ELSE n[1]

sanitize_controller_note_finalize_tick(raw) ==
  LET n == PyInt(raw) IN
  IF n = None THEN 0
  ELSE IF n[1] < 0 THEN 0
  ELSE IF n[1] > NOTE_FINALIZE_TICK_MAX THEN NOTE_FINALIZE_TICK_MAX
  ELSE n[1]

\* A stored optional integer read back as the value .get() returns.
AsJson(opt) == IF opt = None THEN JNull ELSE JInt(opt[1])
\* A stored text read back as the value .get() returns.
TextAsJson(txt) == JRep(txt.s, txt.n)

(***************************************************************************)
(* State.                                                                  *)
(***************************************************************************)
VARIABLES
  clock,                  \* time.time() in ms
  controller_clients,     \* the dict, as the sequence of its entries in insertion order
  controller_state_seq,
  hb,                     \* per heartbeat handler: None, or Some(now) between its upsert and its snapshot
  snap,                   \* None, or Some of the latest get_controller_state_snapshot call since
                          \*   the last accepted heartbeat: its now and the dict it returned
  last,                   \* the controller operation that ran last, with the handler's locals
  shutdown_event,
  camera_params,          \* TRUE when camera intrinsics were loaded at startup
  cam,                    \* camera_loop: its position and locals
  latest_frame, latest_jpeg, latest_frame_seq, latest_frame_updated_at,
  latest_frame_width, latest_frame_height,
  stream_clients,
  streams,                \* per MJPEG connection: position and locals of generate_frames
  det,                    \* apriltag_loop: its position and locals
  latest_apriltags, latest_apriltag_updated_at, latest_apriltag_seq, apriltag_error,
  sse,                    \* the SSE connection: position and locals of event_stream
  surface_plane,          \* None, or Some of the stored plane
  TOUCH_DISTANCE_THRESHOLD,
  api,                    \* the response of the latest surface-plane or threshold request
  held,                   \* per threading.Lock: the task inside its with block, "" when free
  task                    \* per task followed statement by statement: position and locals

ctlVars == <<controller_clients, controller_state_seq, hb, snap>>
frameVars == <<latest_frame, latest_jpeg, latest_frame_seq, latest_frame_updated_at,
               latest_frame_width, latest_frame_height>>
tagVars == <<latest_apriltags, latest_apriltag_updated_at, latest_apriltag_seq, apriltag_error>>
sseVars == <<sse>>
planeVars == <<surface_plane, TOUCH_DISTANCE_THRESHOLD, api>>
lockVars == <<held, task>>
loopVars == <<shutdown_event, camera_params, sseVars, planeVars, cam, frameVars, stream_clients,
              streams, det, tagVars>>
camVars == <<loopVars, lockVars>>

Handlers == {1}

\* A partial map (a Python dict keyed by integers) with key k set to v.
DictPut(d, k, v) == [x \in (DOMAIN d) \cup {k} |-> IF x = k THEN v ELSE d[x]]
EmptyDict == [x \in {} |-> 0]

\* The position of client_id in the dict, 0 when absent.
IndexOf(clients, client_id) ==
  IF \E i \in 1..Len(clients) : clients[i].clientId = client_id
  THEN CHOOSE i \in 1..Len(clients) : clients[i].clientId = client_id
  ELSE 0

\* controller_clients[client_id] = entry: an existing key keeps its place in
\* the iteration order, a new key goes last.
DictAssign(clients, entry) ==
  LET i == IndexOf(clients, entry.clientId) IN
  IF i = 0 THEN Append(clients, entry) ELSE [clients EXCEPT ![i] = entry]

\* controller_clients.pop(client_id, None) for every id in ids.
DictPopAll(clients, ids) ==
  LET keep(e) == \A j \in 1..Len(ids) : ids[j] # e.clientId IN
  SelectSeq(clients, keep)

\* sorted(S) for a finite set of integers.
RECURSIVE Sorted(_)
Sorted(S) ==
  IF S = {} THEN << >>
  ELSE LET m == CHOOSE x \in S : \A y \in S : x <= y
       IN <<m>> \o Sorted(S \ {m})

\* IsExpired with the comparison made inclusive.
IsExpired_Inclusive(updated_at, now) == (now - updated_at) >= CONTROLLER_HEARTBEAT_TTL_SEC

\* Lines 185-186: the entry is TTL-expired at now.
IsExpired(updated_at, now) == (now - updated_at) > CONTROLLER_HEARTBEAT_TTL_SEC

\* Replaces with every candidate replacing the held one.
Replaces_Always(updated_at, held_updated_at) == TRUE

\* Replaces with the comparison made strict.
Replaces_Strict(updated_at, held_updated_at) == updated_at > held_updated_at

\* Lines 202, 218: a candidate replaces the one held for its tag when it is
\* not older.
Replaces(updated_at, held_updated_at) == updated_at >= held_updated_at

\* Lines 200-208: the note state of the entry replaces the one held for its tag.
ScanNote(acc, e, tag) ==
  LET note_text == sanitize_controller_note_text(TextAsJson(e.noteText))
      note_session_active == e.noteSessionActive
      note_finalize_tick == sanitize_controller_note_finalize_tick(JInt(e.noteFinalizeTick))
  IN
  IF note_session_active \/ note_text # EmptyText \/ note_finalize_tick > 0
  THEN IF tag \notin DOMAIN acc.note \/ Replaces(e.updatedAt, acc.note[tag].updatedAt)
       THEN [acc EXCEPT !.note = DictPut(@, tag,
               [text |-> note_text, sessionActive |-> note_session_active,
                finalizeTick |-> note_finalize_tick, updatedAt |-> e.updatedAt])]
       ELSE acc
  ELSE acc

\* ScanTool without the test of the active flag.
ScanTool_IgnoresActive(acc, e, tag) ==
  LET tool == StripLower(IF e.tool = "" THEN "draw" ELSE e.tool) IN
  IF tool \notin CONTROLLER_SUPPORTED_TOOLS THEN acc
  ELSE IF tag \notin DOMAIN acc.tool \/ Replaces(e.updatedAt, acc.tool[tag].updatedAt)
       THEN [acc EXCEPT !.tool = DictPut(@, tag, [tool |-> tool, updatedAt |-> e.updatedAt])]
       ELSE acc

\* Lines 210-222: the tool of an active entry replaces the one held for its tag.
ScanTool(acc, e, tag) ==
  IF ~e.active THEN acc
  ELSE LET tool == StripLower(IF e.tool = "" THEN "draw" ELSE e.tool) IN
       IF tool \notin CONTROLLER_SUPPORTED_TOOLS THEN acc
       ELSE IF tag \notin DOMAIN acc.tool \/ Replaces(e.updatedAt, acc.tool[tag].updatedAt)
            THEN [acc EXCEPT !.tool = DictPut(@, tag, [tool |-> tool, updatedAt |-> e.updatedAt])]
            ELSE acc

\* Lines 183-222: one iteration of the scan, on entry e.
ScanEntry(acc, e, now) ==
  IF IsExpired(e.updatedAt, now)
  THEN [acc EXCEPT !.expired_ids = Append(@, e.clientId)]
  ELSE LET counted == [acc EXCEPT !.active_clients = @ + 1,
                                  !.last_updated_at = IF e.updatedAt > @ THEN e.updatedAt ELSE @]
           trigger_tag_id == sanitize_controller_trigger_tag_id(AsJson(e.triggerTagId))
       IN IF trigger_tag_id = None THEN counted
          ELSE ScanTool(ScanNote(counted, e, trigger_tag_id[1]), e, trigger_tag_id[1])

\* Lines 176-222: the scan over list(controller_clients.items()).
RECURSIVE Scan(_, _, _)
Scan(clients, now, n) ==
  IF n = 0
  THEN [expired_ids |-> << >>, active_clients |-> 0, last_updated_at |-> 0,
        note |-> EmptyDict, tool |-> EmptyDict]
  ELSE ScanEntry(Scan(clients, now, n - 1), clients[n], now)

\* Lines 176-187: expired_ids after the scan.
ExpiredIds(clients, now) == Scan(clients, now, Len(clients)).expired_ids

\* Lines 229-237: the tool map keyed by the decimal string of the tag.
ActiveToolByTriggerTagId(acc) ==
  LET tags == {t \in DOMAIN acc.tool : acc.tool[t].tool \in CONTROLLER_SUPPORTED_TOOLS}
      keys == {ToString(t) : t \in tags}
  IN [k \in keys |-> acc.tool[CHOOSE t \in tags : ToString(t) = k].tool]

\* ActiveDrawTriggerTagIds listing the tags of every tool.
ActiveDrawTriggerTagIds_AllTools(acc) == Sorted(DOMAIN acc.tool)

\* Lines 236-237, 255: sorted(active_draw_triggers).
ActiveDrawTriggerTagIds(acc) ==
  Sorted({t \in DOMAIN acc.tool : acc.tool[t].tool = "draw"})

\* Lines 239-247: the note map keyed by the decimal string of the tag.
RemoteNoteStateByTriggerTagId(acc) ==
  LET keys == {ToString(t) : t \in DOMAIN acc.note}
      at(k) == acc.note[CHOOSE t \in DOMAIN acc.note : ToString(t) = k]
  IN [k \in keys |-> [text |-> at(k).text, sessionActive |-> at(k).sessionActive,
                      finalizeTick |-> at(k).finalizeTick]]

\* SeqAfterPurge counting one advance per removed entry.
SeqAfterPurge_PerEntry(seq, expired_ids) == seq + Len(expired_ids)

\* SeqAfterPurge with the advance left out.
SeqAfterPurge_NoBump(seq, expired_ids) == seq

\* Lines 224-227: the state sequence after the purge.
SeqAfterPurge(seq, expired_ids) == IF Len(expired_ids) > 0 THEN seq + 1 ELSE seq

\* ClientsAfterPurge leaving the expired entries in the dict.
ClientsAfterPurge_Keeps(clients, expired_ids) == clients

\* Lines 224-227: the dict after the purge.
ClientsAfterPurge(clients, expired_ids) ==
  IF Len(expired_ids) > 0 THEN DictPopAll(clients, expired_ids) ELSE clients

\* Lines 249-256: the dict get_controller_state_snapshot(now) returns.
ReturnedDict(acc, seq) ==
  [seq |-> seq,
   updatedAt |-> acc.last_updated_at,
   activeClients |-> acc.active_clients,
   activeToolByTriggerTagId |-> ActiveToolByTriggerTagId(acc),
   remoteNoteStateByTriggerTagId |-> RemoteNoteStateByTriggerTagId(acc),
   activeDrawTriggerTagIds |-> ActiveDrawTriggerTagIds(acc)]

\* The dict returned for a scan of clients at now, the sequence being seq
\* before the purge.
SnapshotResult(clients, seq, now) ==
  LET acc == Scan(clients, now, Len(clients)) IN
  ReturnedDict(acc, SeqAfterPurge(seq, acc.expired_ids))

\* get_controller_state_snapshot(now), run under controller_lock.
get_controller_state_snapshot(now) ==
  LET acc == Scan(controller_clients, now, Len(controller_clients)) IN
  /\ controller_clients' = ClientsAfterPurge(controller_clients, acc.expired_ids)
  /\ controller_state_seq' = SeqAfterPurge(controller_state_seq, acc.expired_ids)
  /\ snap' = Some([now |-> now,
                   result |-> SnapshotResult(controller_clients, controller_state_seq, now)])

(***************************************************************************)
(* POST /api/controller/heartbeat                                          *)
(***************************************************************************)
\* Line 629: str(payload.get("tool") or "draw").strip().lower()
HeartbeatTool(raw) ==
  IF ~Truthy(raw) THEN "draw"
  ELSE IF raw.t = "str" THEN StripLower(raw.s)
  ELSE IF raw.t = "rep" THEN raw.s
  ELSE ToString(raw.i)

\* The error codes of the handler's 400 responses.
HeartbeatErrorCodes ==
  {"invalid_json", "invalid_client_id", "invalid_tool", "invalid_trigger_tag_id"}

\* Lines 621-639: the error code of the 400 response; "OverflowError" when
\* int() raises it at line 634 or 639, which nothing catches, so that the
\* request ends in the framework's 500 response; "" when the body is accepted.
HeartbeatError(payload) ==
  IF ~payload.isObject THEN "invalid_json"
  ELSE IF sanitize_controller_client_id(payload.clientId) = None THEN "invalid_client_id"
  ELSE IF HeartbeatTool(payload.tool) \notin CONTROLLER_SUPPORTED_TOOLS THEN "invalid_tool"
  ELSE IF IntOverflows(payload.triggerTagId) THEN "OverflowError"
  ELSE IF Truthy(payload.active)
          /\ sanitize_controller_trigger_tag_id(payload.triggerTagId) = None
       THEN "invalid_trigger_tag_id"
  ELSE IF IntOverflows(payload.noteFinalizeTick) THEN "OverflowError"
  ELSE ""

\* Lines 646-654: next_state, with the key it is stored under.
NextState(payload, now) ==
  [clientId |-> sanitize_controller_client_id(payload.clientId)[1],
   active |-> Truthy(payload.active),
   tool |-> HeartbeatTool(payload.tool),
   triggerTagId |-> sanitize_controller_trigger_tag_id(payload.triggerTagId),
   noteText |-> sanitize_controller_note_text(payload.noteText),
   noteSessionActive |-> Truthy(payload.noteSessionActive),
   noteFinalizeTick |-> sanitize_controller_note_finalize_tick(payload.noteFinalizeTick),
   updatedAt |-> now]

\* Changed reading the tool of a client it does not hold as the default "draw".
Changed_DefaultTool(clients, next_state) ==
  LET i == IndexOf(clients, next_state.clientId) IN
  IF i = 0
  THEN \/ FALSE # next_state.active
       \/ "draw" # next_state.tool
       \/ None # next_state.triggerTagId
       \/ EmptyText # next_state.noteText
       \/ FALSE # next_state.noteSessionActive
       \/ 0 # next_state.noteFinalizeTick
  ELSE LET previous == clients[i] IN
       \/ previous.active # next_state.active
       \/ previous.tool # next_state.tool
       \/ sanitize_controller_trigger_tag_id(AsJson(previous.triggerTagId)) # next_state.triggerTagId
       \/ sanitize_controller_note_text(TextAsJson(previous.noteText)) # next_state.noteText
       \/ previous.noteSessionActive # next_state.noteSessionActive
       \/ sanitize_controller_note_finalize_tick(JInt(previous.noteFinalizeTick))
            # next_state.noteFinalizeTick

\* Changed with the comparison of the tool left out.
Changed_IgnoresTool(clients, next_state) ==
  LET i == IndexOf(clients, next_state.clientId) IN
  IF i = 0
  THEN \/ FALSE # next_state.active
       \/ None # next_state.triggerTagId
       \/ EmptyText # next_state.noteText
       \/ FALSE # next_state.noteSessionActive
       \/ 0 # next_state.noteFinalizeTick
  ELSE LET previous == clients[i] IN
       \/ previous.active # next_state.active
       \/ previous.triggerTagId # next_state.triggerTagId
       \/ previous.noteText # next_state.noteText
       \/ previous.noteSessionActive # next_state.noteSessionActive
       \/ previous.noteFinalizeTick # next_state.noteFinalizeTick

\* Lines 645, 655-663: changed, for previous = controller_clients.get(client_id) or {}.
Changed(clients, next_state) ==
  LET i == IndexOf(clients, next_state.clientId) IN
  IF i = 0
  THEN \/ FALSE # next_state.active
       \/ "" # next_state.tool
       \/ None # next_state.triggerTagId
       \/ EmptyText # next_state.noteText
       \/ FALSE # next_state.noteSessionActive
       \/ 0 # next_state.noteFinalizeTick
  ELSE LET previous == clients[i] IN
       \/ previous.active # next_state.active
       \/ previous.tool # next_state.tool
       \/ sanitize_controller_trigger_tag_id(AsJson(previous.triggerTagId)) # next_state.triggerTagId
       \/ sanitize_controller_note_text(TextAsJson(previous.noteText)) # next_state.noteText
       \/ previous.noteSessionActive # next_state.noteSessionActive
       \/ sanitize_controller_note_finalize_tick(JInt(previous.noteFinalizeTick))
            # next_state.noteFinalizeTick

\* Lines 664-666: the state sequence after the upsert.
SeqAfterUpsert(seq, changed) == IF changed THEN seq + 1 ELSE seq

NoOp == [op |-> "init", client_id |-> "", changed |-> FALSE, purged |-> 0, error |-> ""]

\* Lines 621-639: a body that fails validation gets a 400 with its error
\* code, one on which int() overflows ends the handler with the exception;
\* neither touches the controller state.
HeartbeatRejected(payload) ==
  /\ HeartbeatError(payload) # ""
  /\ last' = [NoOp EXCEPT !.op = IF HeartbeatError(payload) \in HeartbeatErrorCodes
                                  THEN "heartbeat_rejected" ELSE "heartbeat_raised",
                          !.error = HeartbeatError(payload)]
  /\ UNCHANGED <<clock, ctlVars, camVars>>

\* Lines 621-666: handler h validates the body, reads the clock (line 641)
\* and, holding controller_lock, stores next_state.  The clock is read
\* before the lock is taken, so now is any instant up to the current one.
HeartbeatUpsertUpTo(h, payload, now, max_seq) ==
  /\ hb[h] = None
  /\ HeartbeatError(payload) = ""
  /\ now <= clock
  /\ controller_state_seq < max_seq
  /\ LET next_state == NextState(payload, now)
         changed == Changed(controller_clients, next_state)
     IN /\ controller_clients' = DictAssign(controller_clients, next_state)
        /\ controller_state_seq' = SeqAfterUpsert(controller_state_seq, changed)
        /\ last' = [NoOp EXCEPT !.op = "heartbeat_upsert", !.client_id = next_state.clientId,
                                !.changed = changed]
  /\ hb' = [hb EXCEPT ![h] = Some(now)]
  /\ snap' = None
  /\ UNCHANGED <<clock, camVars>>

HeartbeatUpsert(h, payload, now) == HeartbeatUpsertUpTo(h, payload, now, MaxCtlSeq)

\* Lines 668-671: handler h builds its response with get_controller_state_snapshot(now).
HeartbeatRespond(h) ==
  /\ hb[h] # None
  /\ get_controller_state_snapshot(hb[h][1])
  /\ hb' = [hb EXCEPT ![h] = None]
  /\ last' = [NoOp EXCEPT !.op = "heartbeat_respond",
                          !.purged = Len(ExpiredIds(controller_clients, hb[h][1]))]
  /\ UNCHANGED <<clock, camVars>>

\* Lines 171-256 with now_ts = None (the call of build_apriltag_payload,
\* line 941): the clock is read at line 173, before the lock is taken.
ControllerSnapshot(now) ==
  /\ now <= clock
  /\ get_controller_state_snapshot(now)
  /\ last' = [NoOp EXCEPT !.op = "snapshot",
                          !.purged = Len(ExpiredIds(controller_clients, now))]
  /\ UNCHANGED <<clock, hb, camVars>>

\* Time passes.
Tick(t) ==
  /\ t > clock
  /\ clock' = t
  /\ UNCHANGED <<ctlVars, last, camVars>>

(***************************************************************************)
(* Request bodies.                                                         *)
(***************************************************************************)
Body(client, active, tool, tag, text, session, tick) ==
  [isObject |-> TRUE, clientId |-> client, active |-> active, tool |-> tool,
   triggerTagId |-> tag, noteText |-> text, noteSessionActive |-> session,
   noteFinalizeTick |-> tick]

\* The heartbeat of the scenario: active, tool draw, trigger tag 7.
DrawBody(client) ==
  Body(JStr(client), JBool(TRUE), JStr("draw"), JInt(7), JNull, JBool(FALSE), JInt(0))

\* Client a sends the scenario's heartbeat or, inactive, only note text;
\* client b sends the scenario's heartbeat or another tool on the same tag.
AcceptedBodies ==
  { DrawBody("a"),
    [DrawBody(" a ") EXCEPT !.active = JNull, !.noteText = JRep("x", 2)],
    DrawBody("b"),
    [DrawBody("b") EXCEPT !.tool = JStr("NOTE"), !.triggerTagId = JStr("7")] }

RejectedBodies ==
  { [DrawBody("a") EXCEPT !.tool = JStr("laser")],
    [DrawBody("a") EXCEPT !.triggerTagId = JInt(10000)] }

NoteBody(client) == [DrawBody(client) EXCEPT !.tool = JStr("note")]

\* A request whose body is not a JSON object.
NotAnObject == [DrawBody("a") EXCEPT !.isObject = FALSE]

\* Bodies with a fault of each kind the handler validates: no object; a
\* clientId that is no string, blank, has a character outside the token
\* alphabet or has 65 characters; a tool outside the supported set; an
\* active heartbeat whose triggerTagId is missing, 0, 10000, no number or
\* the float infinity.
InvalidBodies ==
  { NotAnObject,
    [DrawBody("a") EXCEPT !.clientId = JInt(5)],
    [DrawBody("a") EXCEPT !.clientId = JStr("  ")],
    [DrawBody("a") EXCEPT !.clientId = JStr("a!")],
    [DrawBody("a") EXCEPT !.clientId = JStr("x65")],
    [DrawBody("a") EXCEPT !.tool = JStr("laser")],
    [DrawBody("a") EXCEPT !.triggerTagId = JNull],
    [DrawBody("a") EXCEPT !.triggerTagId = JInt(0)],
    [DrawBody("a") EXCEPT !.triggerTagId = JInt(10000)],
    [DrawBody("a") EXCEPT !.triggerTagId = JStr("abc")],
    [DrawBody("a") EXCEPT !.triggerTagId = JInf] }

(***************************************************************************)
(* camera_loop                                                             *)
(***************************************************************************)
MaxFrameSeq == 2        \* frames are read while latest_frame_seq is below this

\* The images the capture device delivers, with their shapes.
Frames == {"f1", "f2"}
Width(frame) == IF frame = "f1" THEN 640 ELSE 1280
Height(frame) == IF frame = "f1" THEN 480 ELSE 720
\* cv2.imencode(".jpg", frame).tobytes()
Jpeg(frame) == <<"jpeg", frame>>

CamIdle == [pc |-> "read", frame |-> None, should_encode |-> FALSE, jpeg_bytes |-> None]

\* Lines 363: the loop sees shutdown_event set and returns.
CaptureExit ==
  /\ cam.pc = "read"
  /\ shutdown_event
  /\ cam' = [cam EXCEPT !.pc = "done"]
  /\ UNCHANGED <<clock, ctlVars, last, shutdown_event, camera_params, lockVars, sseVars,
                 planeVars, frameVars, stream_clients, streams, det, tagVars>>

\* Lines 363-376: local_camera.read() returns a frame.
CaptureRead(frame) ==
  /\ cam.pc = "read"
  /\ ~shutdown_event
  /\ latest_frame_seq < MaxFrameSeq
  /\ cam' = [CamIdle EXCEPT !.pc = "sample", !.frame = Some(frame)]
  /\ UNCHANGED <<clock, ctlVars, last, shutdown_event, camera_params, lockVars, sseVars,
                 planeVars, frameVars, stream_clients, streams, det, tagVars>>

\* Lines 371-373: the read fails (success is False or frame is None) and
\* the loop backs off.
CaptureReadFailed ==
  /\ cam.pc = "read"
  /\ ~shutdown_event
  /\ cam' = [CamIdle EXCEPT !.pc = "sleep"]
  /\ UNCHANGED <<clock, ctlVars, last, shutdown_event, camera_params, lockVars, sseVars,
                 planeVars, frameVars, stream_clients, streams, det, tagVars>>

\* Lines 373-374: after the back-off the loop starts over.
CaptureRetry ==
  /\ cam.pc = "sleep"
  /\ cam' = CamIdle
  /\ UNCHANGED <<clock, ctlVars, last, shutdown_event, camera_params, lockVars, sseVars,
                 planeVars, frameVars, stream_clients, streams, det, tagVars>>

\* ShouldEncode without the gate.
ShouldEncode_Always(count) == TRUE

\* Line 380: should_encode, for the subscriber count read.
ShouldEncode(count) == count > 0

\* Lines 379-382: should_encode is sampled under stream_clients_lock.
CaptureSample ==
  /\ cam.pc = "sample"
  /\ cam' = [cam EXCEPT !.pc = IF ShouldEncode(stream_clients) THEN "encode" ELSE "publish",
                        !.should_encode = ShouldEncode(stream_clients)]
  /\ UNCHANGED <<clock, ctlVars, last, shutdown_event, camera_params, lockVars, sseVars,
                 planeVars, frameVars, stream_clients, streams, det, tagVars>>

\* Lines 382-385: cv2.imencode, outside any lock; ok tells whether it succeeded.
CaptureEncode(ok) ==
  /\ cam.pc = "encode"
  /\ cam' = [cam EXCEPT !.pc = "publish",
                        !.jpeg_bytes = IF ok THEN Some(Jpeg(cam.frame[1])) ELSE None]
  /\ UNCHANGED <<clock, ctlVars, last, shutdown_event, camera_params, lockVars, sseVars,
                 planeVars, frameVars, stream_clients, streams, det, tagVars>>

\* Lines 371, 383: local_camera.read() or cv2.imencode raises.  camera_loop
\* has no try statement: the exception leaves the function and the thread
\* ends.
CaptureRaises ==
  /\ (cam.pc = "read" /\ ~shutdown_event) \/ cam.pc = "encode"
  /\ cam' = [cam EXCEPT !.pc = "raised"]
  /\ UNCHANGED <<clock, ctlVars, last, shutdown_event, camera_params, lockVars, sseVars,
                 planeVars, frameVars, stream_clients, streams, det, tagVars>>

\* PublishedJpeg keeping the bytes of an earlier tick when this one has none.
PublishedJpeg_KeepsOld(should_encode, jpeg_bytes) ==
  IF should_encode /\ jpeg_bytes # None THEN jpeg_bytes ELSE latest_jpeg

\* Line 389: the encoded bytes the tick publishes.
PublishedJpeg(should_encode, jpeg_bytes) == IF should_encode THEN jpeg_bytes ELSE None

\* NextFrameSeq wrapping around.
NextFrameSeq_Wraps(seq) == (seq + 1) % 2

\* NextFrameSeq counting a tick twice.
NextFrameSeq_Double(seq) == seq + 2

\* Line 392: the frame sequence after a publication.
NextFrameSeq(seq) == seq + 1

\* Lines 387-393: the tick is published under frame_lock.
CapturePublish ==
  /\ cam.pc = "publish"
  /\ latest_frame' = cam.frame
  /\ latest_jpeg' = PublishedJpeg(cam.should_encode, cam.jpeg_bytes)
  /\ latest_frame_width' = Width(cam.frame[1])
  /\ latest_frame_height' = Height(cam.frame[1])
  /\ latest_frame_seq' = NextFrameSeq(latest_frame_seq)
  /\ latest_frame_updated_at' = clock
  /\ cam' = CamIdle
  /\ UNCHANGED <<clock, ctlVars, last, shutdown_event, camera_params, lockVars, sseVars, planeVars,
                 stream_clients, streams, det, tagVars>>

(***************************************************************************)
(* generate_frames: one generator per MJPEG connection                     *)
(***************************************************************************)
Streams == {"s1", "s2"}

\* frame_bytes is the chunk being sent while the generator is suspended at
\* its yield.
StreamNew == [pc |-> "new", last_seq |-> -1, frame_bytes |-> None]

\* Lines 501-503: the generator is started: the subscriber count goes up.
StreamStart(c) ==
  /\ streams[c].pc = "new"
  /\ stream_clients' = stream_clients + 1
  /\ streams' = [streams EXCEPT ![c].pc = "loop"]
  /\ UNCHANGED <<clock, ctlVars, last, shutdown_event, camera_params, lockVars, sseVars,
                 planeVars, cam, frameVars, det, tagVars>>

\* ShouldYield without the comparison with the sequence sent last.
ShouldYield_IgnoresLast(frame_bytes, seq, last_seq) == frame_bytes # None

\* Lines 511-517: the iteration goes on to the yield when there is an encoded
\* frame and its sequence is not the one this connection sent last.
ShouldYield(frame_bytes, seq, last_seq) == frame_bytes # None /\ seq # last_seq

\* Lines 506-517: an iteration that finds no encoded frame, or the one it
\* sent last, sleeps and starts over.
StreamIdle(c) ==
  /\ streams[c].pc = "loop"
  /\ ~shutdown_event
  /\ ~ShouldYield(latest_jpeg, latest_frame_seq, streams[c].last_seq)
  /\ UNCHANGED <<clock, ctlVars, last, camVars>>

\* Lines 506-524: an iteration that finds a new encoded frame yields a chunk.
StreamYield(c) ==
  /\ streams[c].pc = "loop"
  /\ ~shutdown_event
  /\ ShouldYield(latest_jpeg, latest_frame_seq, streams[c].last_seq)
  /\ streams' = [streams EXCEPT ![c] = [pc |-> "yield", last_seq |-> latest_frame_seq,
                                         frame_bytes |-> latest_jpeg]]
  /\ UNCHANGED <<clock, ctlVars, last, shutdown_event, camera_params, lockVars, sseVars,
                 planeVars, cam, frameVars, stream_clients, det, tagVars>>

\* The server has written the chunk and resumes the generator.
StreamResume(c) ==
  /\ streams[c].pc = "yield"
  /\ streams' = [streams EXCEPT ![c].pc = "loop", ![c].frame_bytes = None]
  /\ UNCHANGED <<clock, ctlVars, last, shutdown_event, camera_params, lockVars, sseVars,
                 planeVars, cam, frameVars, stream_clients, det, tagVars>>

\* Line 506: the loop sees shutdown_event set and falls through to finally.
StreamShutdown(c) ==
  /\ streams[c].pc = "loop"
  /\ shutdown_event
  /\ streams' = [streams EXCEPT ![c].pc = "finally"]
  /\ UNCHANGED <<clock, ctlVars, last, shutdown_event, camera_params, lockVars, sseVars,
                 planeVars, cam, frameVars, stream_clients, det, tagVars>>

\* The client went away: the server closes the generator, which raises
\* GeneratorExit at the yield (line 521).
StreamDisconnect(c) ==
  /\ streams[c].pc = "yield"
  /\ streams' = [streams EXCEPT ![c].pc = "finally", ![c].frame_bytes = None]
  /\ UNCHANGED <<clock, ctlVars, last, shutdown_event, camera_params, lockVars, sseVars,
                 planeVars, cam, frameVars, stream_clients, det, tagVars>>

\* An error is thrown inside the try block (lines 505-524).
StreamError(c) ==
  /\ streams[c].pc = "loop"
  /\ streams' = [streams EXCEPT ![c].pc = "finally"]
  /\ UNCHANGED <<clock, ctlVars, last, shutdown_event, camera_params, lockVars, sseVars,
                 planeVars, cam, frameVars, stream_clients, det, tagVars>>

\* CountAfterExit resetting the count.
CountAfterExit_Reset(count) == 0

\* Line 527: the subscriber count after one generator has exited.
CountAfterExit(count) == IF count - 1 > 0 THEN count - 1 ELSE 0

\* Lines 525-527: the finally block.
StreamFinally(c) ==
  /\ streams[c].pc = "finally"
  /\ stream_clients' = CountAfterExit(stream_clients)
  /\ streams' = [streams EXCEPT ![c].pc = "done"]
  /\ UNCHANGED <<clock, ctlVars, last, shutdown_event, camera_params, lockVars, sseVars,
                 planeVars, cam, frameVars, det, tagVars>>

\* Lines 481-482: _release_camera sets the shutdown signal.
Shutdown ==
  /\ ~shutdown_event
  /\ shutdown_event' = TRUE
  /\ UNCHANGED <<clock, ctlVars, last, camera_params, lockVars, sseVars, planeVars, cam, frameVars,
                 stream_clients, streams, det, tagVars>>

(***************************************************************************)
(* apriltag_loop                                                           *)
(***************************************************************************)
\* The lists of mapped detections a pass can produce.
DetectionLists == { << >>, << [id |-> 7] >> }

\* The messages of the exceptions the detector raises.
AmbiguityMessage == "More than one new minima found."
Messages == {AmbiguityMessage, "detector failed", "bad image"}

\* Lines 350-354: the message, stripped and lower-cased, contains
\* "more than one new minima found".
is_apriltag_pose_ambiguity_error(msg) == msg = AmbiguityMessage

NoResult == [kind |-> "none", detections |-> << >>, message |-> ""]
Ok(detections) == [kind |-> "ok", detections |-> detections, message |-> ""]
Raised(msg) == [kind |-> "error", detections |-> << >>, message |-> msg]

\* calls and raised record the pass in progress: the estimate_tag_pose
\* flags of its detector calls, in order, and the message of the exception
\* its first call raised.
DetIdle(last_seq, pose) ==
  [pc |-> "poll", frame |-> None, seq |-> -1, last_seq |-> last_seq,
   pose_estimation_enabled |-> pose, result |-> NoResult, raw |-> << >>,
   calls |-> << >>, raised |-> None]

\* The detection task before its first statement, in a process whose
\* detector library or instance is missing.
DetUnavailable == [DetIdle(-1, FALSE) EXCEPT !.pc = "start"]

\* UnavailableError recording nothing.
UnavailableError_NotRecorded == None

\* Line 401: the error recorded when there is no detector.
UnavailableError == Some("pupil_apriltags_not_available")

\* Lines 399-402: without a detector the task records the error under
\* apriltag_lock and returns.
DetectUnavailable ==
  /\ det.pc = "start"
  /\ apriltag_error' = UnavailableError
  /\ det' = [det EXCEPT !.pc = "done"]
  /\ UNCHANGED <<clock, ctlVars, last, shutdown_event, camera_params, lockVars, sseVars,
                 planeVars, cam, frameVars, stream_clients, streams, latest_apriltags, latest_apriltag_updated_at,
                 latest_apriltag_seq>>

\* Line 409: the loop sees shutdown_event set and returns.
DetectExit ==
  /\ det.pc = "poll"
  /\ shutdown_event
  /\ det' = [det EXCEPT !.pc = "done"]
  /\ UNCHANGED <<clock, ctlVars, last, shutdown_event, camera_params, lockVars, sseVars,
                 planeVars, cam, frameVars, stream_clients, streams, tagVars>>

\* Lines 413-424: no frame yet, or the frame processed last: sleep and poll again.
DetectIdle ==
  /\ det.pc = "poll"
  /\ ~shutdown_event
  /\ latest_frame = None \/ latest_frame_seq = det.last_seq
  /\ UNCHANGED <<clock, ctlVars, last, camVars>>

\* Lines 413-426: a new frame is taken under frame_lock.
DetectTake ==
  /\ det.pc = "poll"
  /\ ~shutdown_event
  /\ latest_frame # None
  /\ latest_frame_seq # det.last_seq
  /\ det' = [det EXCEPT !.pc = "detect", !.frame = latest_frame,
                        !.seq = latest_frame_seq, !.last_seq = latest_frame_seq]
  /\ UNCHANGED <<clock, ctlVars, last, shutdown_event, camera_params, lockVars, sseVars,
                 planeVars, cam, frameVars, stream_clients, streams, tagVars>>

\* Lines 428-451: the detector call (with pose when enabled) and the mapping
\* succeed.
DetectOk(detections) ==
  /\ det.pc = "detect"
  /\ det' = [det EXCEPT !.pc = "publish", !.result = Ok(detections),
                        !.calls = <<det.pose_estimation_enabled>>]
  /\ UNCHANGED <<clock, ctlVars, last, shutdown_event, camera_params, lockVars, sseVars,
                 planeVars, cam, frameVars, stream_clients, streams, tagVars>>

\* Lines 438-448: what the pass ends with after the first detector call
\* raised msg: an ambiguity error of the pose call is answered by the
\* detection-only call, whose outcome is fallback; anything else is raised.
AfterRaise(pose_estimation_enabled, msg, fallback) ==
  IF pose_estimation_enabled /\ is_apriltag_pose_ambiguity_error(msg)
  THEN fallback ELSE Raised(msg)

\* PoseAfterRaise keeping pose estimation on after an ambiguity error.
PoseAfterRaise_Retry(pose_estimation_enabled, msg) == pose_estimation_enabled

\* Lines 438-441: an ambiguity error of the pose call turns pose estimation
\* off for the rest of the run.
PoseAfterRaise(pose_estimation_enabled, msg) ==
  IF pose_estimation_enabled /\ is_apriltag_pose_ambiguity_error(msg)
  THEN FALSE ELSE pose_estimation_enabled

\* The detector calls of a pass whose first call raised msg.
CallsAfterRaise(pose_estimation_enabled, msg) ==
  IF pose_estimation_enabled /\ is_apriltag_pose_ambiguity_error(msg)
  THEN <<TRUE, FALSE>> ELSE <<pose_estimation_enabled>>

\* Lines 428-451: the first detector call raises msg.
DetectRaises(msg, fallback) ==
  /\ det.pc = "detect"
  /\ det' = [det EXCEPT !.pc = "publish",
        !.pose_estimation_enabled = PoseAfterRaise(det.pose_estimation_enabled, msg),
        !.calls = CallsAfterRaise(det.pose_estimation_enabled, msg),
        !.raised = Some(msg),
        !.result = AfterRaise(det.pose_estimation_enabled, msg, fallback)]
  /\ UNCHANGED <<clock, ctlVars, last, shutdown_event, camera_params, lockVars, sseVars,
                 planeVars, cam, frameVars, stream_clients, streams, tagVars>>

\* Line 456: the detection sequence after a successful pass.
SeqAfterPass(seq) == seq + 1

\* SeqAfterError advancing on every failed pass.
SeqAfterError_Always(seq, error, message) == seq + 1

\* Lines 461-462: the detection sequence after a failed pass.
SeqAfterError(seq, error, message) == IF error # Some(message) THEN seq + 1 ELSE seq

\* ErrorAfterPass leaving the recorded error in place.
ErrorAfterPass_Kept == apriltag_error

\* Line 457: the error after a successful pass.
ErrorAfterPass == None

\* Lines 453-457: a successful pass is published under apriltag_lock.
DetectPublish ==
  /\ det.pc = "publish"
  /\ det.result.kind = "ok"
  /\ latest_apriltags' = det.result.detections
  /\ latest_apriltag_updated_at' = clock
  /\ latest_apriltag_seq' = SeqAfterPass(latest_apriltag_seq)
  /\ apriltag_error' = ErrorAfterPass
  /\ det' = DetIdle(det.last_seq, det.pose_estimation_enabled)
  /\ UNCHANGED <<clock, ctlVars, last, shutdown_event, camera_params, lockVars, sseVars,
                 planeVars, cam, frameVars, stream_clients, streams>>

\* Lines 458-463: a failed pass records its message under apriltag_lock.
DetectPublishError ==
  /\ det.pc = "publish"
  /\ det.result.kind = "error"
  /\ latest_apriltag_seq' =
       SeqAfterError(latest_apriltag_seq, apriltag_error, det.result.message)
  /\ apriltag_error' = Some(det.result.message)
  /\ det' = DetIdle(det.last_seq, det.pose_estimation_enabled)
  /\ UNCHANGED <<clock, ctlVars, last, shutdown_event, camera_params, lockVars, sseVars,
                 planeVars, cam, frameVars, stream_clients, streams, latest_apriltags, latest_apriltag_updated_at>>

(***************************************************************************)
(* GET /api/apriltags/stream: event_stream                                 *)
(***************************************************************************)
SSE_KEEPALIVE_SEC == 15000

\* Lines 894-896, before the generator is started.  sent and emitted_at
\* record what the connection has emitted: the pair of its last data event
\* and the kind and instant of its last data event or keepalive.
SseNew ==
  [pc |-> "new", last_sent_seq |-> -1, last_sent_controller_seq |-> -1,
   last_keepalive_at |-> 0, seq |-> 0, controller_seq |-> 0, now |-> 0,
   sent |-> None, emitted |-> "none", emitted_at |-> 0, iterations |-> 0]

\* Lines 894-897: the locals are set and the retry hint is yielded.
SseStart ==
  /\ sse.pc = "new"
  /\ sse' = [sse EXCEPT !.pc = "loop", !.last_keepalive_at = clock]
  /\ UNCHANGED <<clock, ctlVars, last, shutdown_event, camera_params, lockVars, planeVars, cam,
                 frameVars, stream_clients, streams, det, tagVars>>

\* StopRequested never seeing the signal.
StopRequested_Never(flag) == FALSE

\* Line 899: shutdown_event.is_set().
StopRequested(flag) == flag

\* Line 899: the loop test finds the shutdown signal set.
SseShutdown ==
  /\ sse.pc = "loop"
  /\ StopRequested(shutdown_event)
  /\ sse' = [sse EXCEPT !.pc = "done"]
  /\ UNCHANGED <<clock, ctlVars, last, shutdown_event, camera_params, lockVars, planeVars, cam,
                 frameVars, stream_clients, streams, det, tagVars>>

\* Lines 899-901, 928-932: build_apriltag_payload reads the detection
\* sequence under apriltag_lock.
SseReadDetections ==
  /\ sse.pc = "loop"
  /\ ~StopRequested(shutdown_event)
  /\ sse' = [sse EXCEPT !.pc = "snapshot", !.seq = latest_apriltag_seq]
  /\ UNCHANGED <<clock, ctlVars, last, shutdown_event, camera_params, lockVars, planeVars, cam,
                 frameVars, stream_clients, streams, det, tagVars>>

\* Lines 941, 902-903: build_apriltag_payload calls
\* get_controller_state_snapshot(), and the iteration takes the controller
\* sequence from the payload.
SseSnapshot(now) ==
  /\ sse.pc = "snapshot"
  /\ now <= clock
  /\ get_controller_state_snapshot(now)
  /\ last' = [NoOp EXCEPT !.op = "snapshot",
                          !.purged = Len(ExpiredIds(controller_clients, now))]
  /\ sse' = [sse EXCEPT !.pc = "compare", !.controller_seq = controller_state_seq',
                        !.iterations = IF @ < 2 THEN @ + 1 ELSE @]
  /\ UNCHANGED <<clock, hb, shutdown_event, camera_params, lockVars, planeVars, cam,
                 frameVars, stream_clients, streams, det, tagVars>>

\* PairChanged looking at the controller sequence only.
PairChanged_ControllerOnly(seq, controller_seq, last_sent_seq, last_sent_controller_seq) ==
  controller_seq # last_sent_controller_seq

\* PairChanged looking at the detection sequence only.
PairChanged_DetectionOnly(seq, controller_seq, last_sent_seq, last_sent_controller_seq) ==
  seq # last_sent_seq

\* Line 905: the pair of the payload differs from the pair sent last.
PairChanged(seq, controller_seq, last_sent_seq, last_sent_controller_seq) ==
  seq # last_sent_seq \/ controller_seq # last_sent_controller_seq

\* Lines 905-908: the pair changed: it is remembered and the payload is
\* yielded as a data event.
SseSendData ==
  /\ sse.pc = "compare"
  /\ PairChanged(sse.seq, sse.controller_seq, sse.last_sent_seq, sse.last_sent_controller_seq)
  /\ sse' = [sse EXCEPT !.pc = "data", !.last_sent_seq = sse.seq,
                        !.last_sent_controller_seq = sse.controller_seq,
                        !.sent = Some(<<sse.seq, sse.controller_seq>>),
                        !.emitted = "data", !.emitted_at = clock]
  /\ UNCHANGED <<clock, ctlVars, last, shutdown_event, camera_params, lockVars, planeVars, cam,
                 frameVars, stream_clients, streams, det, tagVars>>

\* Line 909: the generator is resumed after the data event and restarts
\* the keepalive timer.
SseResumeData ==
  /\ sse.pc = "data"
  /\ sse' = [sse EXCEPT !.pc = "loop", !.last_keepalive_at = clock]
  /\ UNCHANGED <<clock, ctlVars, last, shutdown_event, camera_params, lockVars, planeVars, cam,
                 frameVars, stream_clients, streams, det, tagVars>>

\* KeepaliveDue with a 10 s period.
KeepaliveDue_TenSeconds(now, last_keepalive_at) == (now - last_keepalive_at) >= 10000

\* Line 912: the keepalive period has passed.
KeepaliveDue(now, last_keepalive_at) == (now - last_keepalive_at) >= SSE_KEEPALIVE_SEC

\* Lines 910-913: the pair is unchanged, the clock is read and the period
\* has passed: a keepalive comment is yielded.
SseSendKeepalive ==
  /\ sse.pc = "compare"
  /\ ~PairChanged(sse.seq, sse.controller_seq, sse.last_sent_seq, sse.last_sent_controller_seq)
  /\ KeepaliveDue(clock, sse.last_keepalive_at)
  /\ sse' = [sse EXCEPT !.pc = "keepalive", !.now = clock,
                        !.emitted = "keepalive", !.emitted_at = clock]
  /\ UNCHANGED <<clock, ctlVars, last, shutdown_event, camera_params, lockVars, planeVars, cam,
                 frameVars, stream_clients, streams, det, tagVars>>

\* Lines 914-915: resumed after the keepalive, the generator restarts the
\* timer at the instant it read before the yield, and sleeps.
SseResumeKeepalive ==
  /\ sse.pc = "keepalive"
  /\ sse' = [sse EXCEPT !.pc = "loop", !.last_keepalive_at = sse.now]
  /\ UNCHANGED <<clock, ctlVars, last, shutdown_event, camera_params, lockVars, planeVars, cam,
                 frameVars, stream_clients, streams, det, tagVars>>

\* Lines 910-915: the pair is unchanged and the period has not passed: the
\* iteration only sleeps.
SseSleep ==
  /\ sse.pc = "compare"
  /\ ~PairChanged(sse.seq, sse.controller_seq, sse.last_sent_seq, sse.last_sent_controller_seq)
  /\ ~KeepaliveDue(clock, sse.last_keepalive_at)
  /\ sse' = [sse EXCEPT !.pc = "loop", !.now = clock]
  /\ UNCHANGED <<clock, ctlVars, last, shutdown_event, camera_params, lockVars, planeVars, cam,
                 frameVars, stream_clients, streams, det, tagVars>>

\* The client went away: the server closes the generator at a yield.
SseDisconnect ==
  /\ sse.pc \in {"data", "keepalive"}
  /\ sse' = [sse EXCEPT !.pc = "done"]
  /\ UNCHANGED <<clock, ctlVars, last, shutdown_event, camera_params, lockVars, planeVars, cam,
                 frameVars, stream_clients, streams, det, tagVars>>

(***************************************************************************)
(* The surface plane and the touch threshold.  Lengths are in micrometres. *)
(***************************************************************************)
\* Line 69: TOUCH_DISTANCE_THRESHOLD = 0.018 (metres).
TOUCH_DISTANCE_THRESHOLD_DEFAULT == 18000

\* Python floats: a finite number of micrometres, NaN, or +infinity.
Num(v) == [k |-> "num", v |-> v]
NaN == [k |-> "nan", v |-> 0]
Inf == [k |-> "inf", v |-> 0]

\* json.loads yields float('nan') for NaN.
JNaN == [t |-> "nan", s |-> "", i |-> 0]
\* An integer literal too large for a double (400 digits).
JHuge == [t |-> "huge", s |-> "", i |-> 0]

\* a <= b on floats: false when either is NaN.
FloatLe(a, b) ==
  CASE a.k = "nan" \/ b.k = "nan" -> FALSE
    [] b.k = "inf" -> TRUE
    [] a.k = "inf" -> FALSE
    [] OTHER -> a.v <= b.v

\* A request of POST /api/touch_threshold: the body is a JSON object or
\* not, and threshold is what payload.get("threshold") returns.
ThresholdRequest(isObject, threshold) == [isObject |-> isObject, threshold |-> threshold]

\* Line 612: not isinstance(threshold, (int, float)) or threshold <= 0.
\* bool is a subclass of int, and NaN <= 0 is false.
ThresholdInvalid(threshold) ==
  \/ threshold.t \notin {"bool", "int", "inf", "nan"}
  \/ (threshold.t \in {"bool", "int"} /\ threshold.i <= 0)

\* Line 614: float(threshold); True is 1.0 (metres).
ThresholdAsFloat(threshold) ==
  CASE threshold.t = "bool" -> Num(threshold.i * 1000000)
    [] threshold.t = "int" -> Num(threshold.i)
    [] threshold.t = "inf" -> Inf
    [] threshold.t = "nan" -> NaN

NoResponse == [op |-> "none", ok |-> FALSE, error |-> "", request |-> << >>, body |-> << >>]

\* Lines 604-615: POST /api/touch_threshold.
api_touch_threshold(request) ==
  LET error == IF ~request.isObject THEN "invalid_json"
               ELSE IF ThresholdInvalid(request.threshold) THEN "invalid_threshold"
               ELSE ""
  IN /\ TOUCH_DISTANCE_THRESHOLD' =
          IF error = "" THEN ThresholdAsFloat(request.threshold) ELSE TOUCH_DISTANCE_THRESHOLD
     /\ api' = [NoResponse EXCEPT !.op = "touch_threshold", !.ok = (error = ""),
                                  !.error = error, !.request = <<request>>,
                                  !.body = <<TOUCH_DISTANCE_THRESHOLD'>>]
     /\ UNCHANGED <<clock, ctlVars, last, shutdown_event, camera_params, lockVars, sseVars,
                    surface_plane, cam, frameVars, stream_clients, streams, det, tagVars>>

\* A point of a calibration request: a JSON object with the keys in has and
\* the coordinates x, y, z, or (isObject false) a number.
Point(x, y, z) == [isObject |-> TRUE, has |-> {"x", "y", "z"}, x |-> x, y |-> y, z |-> z]
NotAPoint == [isObject |-> FALSE, has |-> {}, x |-> JNull, y |-> JNull, z |-> JNull]
Coords(p) == <<p.x.i, p.y.i, p.z.i>>

\* A request of POST /api/surface_plane: points is a list or not.
PlaneRequest(isObject, isList, points) ==
  [isObject |-> isObject, isList |-> isList, points |-> points]

\* Line 562, the list comprehension: the exception that p["x"], p["y"],
\* p["z"] raises on the first point that has no such item, "" if none does.
RECURSIVE SubscriptError(_)
SubscriptError(points) ==
  IF points = << >> THEN ""
  ELSE LET p == Head(points) IN
       IF ~p.isObject THEN "TypeError"
       ELSE IF p.has # {"x", "y", "z"} THEN "KeyError"
       ELSE SubscriptError(Tail(points))

\* The exception float64 conversion raises on one coordinate, "" if none.
CoordError(c) ==
  CASE c.t \in {"int", "bool", "inf", "nan"} -> ""
    [] c.t = "null" -> "TypeError"
    [] c.t = "huge" -> "OverflowError"
    [] OTHER -> "ValueError"

\* Line 562, np.array(..., dtype=np.float64): the exception raised on the
\* first coordinate, in row order, that does not convert.
RECURSIVE ConvertError(_)
ConvertError(points) ==
  IF points = << >> THEN ""
  ELSE LET p == Head(points) IN
       IF CoordError(p.x) # "" THEN CoordError(p.x)
       ELSE IF CoordError(p.y) # "" THEN CoordError(p.y)
       ELSE IF CoordError(p.z) # "" THEN CoordError(p.z)
       ELSE ConvertError(Tail(points))

\* Lines 553-564: the error code of the 400 response; "OverflowError" when
\* the conversion raises it, which the except clause does not catch; ""
\* when the points are accepted.
PlaneError(request) ==
  IF ~request.isObject THEN "invalid_json"
  ELSE IF ~request.isList \/ Len(request.points) < 3 THEN "need_at_least_3_points"
  ELSE LET raised == IF SubscriptError(request.points) # ""
                     THEN SubscriptError(request.points) ELSE ConvertError(request.points)
       IN IF raised \in {"KeyError", "TypeError", "ValueError"} THEN "invalid_point_format"
          ELSE raised

\* Lines 567-572, np.linalg.svd of the centred points, for points that all
\* lie in one plane normal to a coordinate axis and span it: the unit
\* normals of that plane.  The sign of vh[-1] is the library's choice.
Axis(i) == [j \in 1..3 |-> IF j = i THEN 1 ELSE 0]
Negated(v) == [j \in 1..3 |-> 0 - v[j]]
SameCoord(points, i) ==
  \A m, n \in 1..Len(points) : Coords(points[m])[i] = Coords(points[n])[i]
UnitNormals(points) ==
  UNION {{Axis(i), Negated(Axis(i))} : i \in {j \in 1..3 : SameCoord(points, j)}}

\* Line 573: d = -dot(normal, centroid); along the normal's axis all points
\* have the centroid's coordinate.
PlaneOffset(normal, points) ==
  LET c == Coords(points[1]) IN 0 - (normal[1] * c[1] + normal[2] * c[2] + normal[3] * c[3])

FittedPlane(normal, points) ==
  [normal |-> normal, d |-> PlaneOffset(normal, points), numPoints |-> Len(points)]

\* Lines 549-582: POST /api/surface_plane, with the normal the SVD returned.
api_surface_plane(request, normal) ==
  LET error == PlaneError(request) IN
  /\ error = "" => normal \in UnitNormals(request.points)
  /\ error # "" => normal = Axis(3)
  /\ surface_plane' = IF error = "" THEN Some(FittedPlane(normal, request.points))
                      ELSE surface_plane
  /\ api' = [NoResponse EXCEPT !.op = "surface_plane", !.ok = (error = ""), !.error = error,
                               !.request = <<request>>,
                               !.body = IF error = "" THEN surface_plane' ELSE << >>]
  /\ UNCHANGED <<clock, ctlVars, last, shutdown_event, camera_params, lockVars, sseVars,
                 TOUCH_DISTANCE_THRESHOLD, cam, frameVars, stream_clients, streams, det, tagVars>>

\* Lines 585-591: DELETE /api/surface_plane.
api_surface_plane_delete ==
  /\ surface_plane' = None
  /\ api' = [NoResponse EXCEPT !.op = "surface_plane_delete", !.ok = TRUE]
  /\ UNCHANGED <<clock, ctlVars, last, shutdown_event, camera_params, lockVars, sseVars,
                 TOUCH_DISTANCE_THRESHOLD, cam, frameVars, stream_clients, streams, det, tagVars>>

\* Lines 594-601: GET /api/surface_plane; body is None for calibrated: false.
api_surface_plane_get ==
  /\ api' = [NoResponse EXCEPT !.op = "surface_plane_get", !.ok = TRUE, !.body = surface_plane]
  /\ UNCHANGED <<clock, ctlVars, last, shutdown_event, camera_params, lockVars, sseVars,
                 surface_plane, TOUCH_DISTANCE_THRESHOLD, cam, frameVars, stream_clients, streams, det, tagVars>>

(***************************************************************************)
(* _map_detection: the touch classification of one detection               *)
(***************************************************************************)
\* What the detector returns for one tag, as _map_detection reads it:
\* pose_t is the finite translation of lines 286-292 (None without pose),
\* tip_cam the finite pen tip of lines 311-317 (None without a valid pose_R).
RawDetection(id, pose_t, tip_cam) == [id |-> id, pose_t |-> pose_t, tip_cam |-> tip_cam]

\* The detector called without pose estimation returns no pose.
WithoutPose(raws) == [i \in 1..Len(raws) |-> RawDetection(raws[i].id, None, None)]

Abs(v) == IF v < 0 THEN 0 - v ELSE v
Dot(a, b) == a[1] * b[1] + a[2] * b[2] + a[3] * b[3]

\* Line 336: the tip when it was computed, the tag-centre pose otherwise.
PoseForTouch(pose_t, tip_cam) == IF tip_cam # None THEN tip_cam[1] ELSE pose_t[1]

\* Line 343: abs(dot(n, pos) + d).
SurfaceDistance(plane, pos) == Abs(Dot(plane.normal, pos) + plane.d)

\* Line 344: round(distance, 4), four decimals of a metre.
Round4(distance) == ((distance + 50) \div 100) * 100

\* IsTouch with the bound exclusive.
IsTouch_Exclusive(distance, threshold) ==
  FloatLe(Num(distance), threshold) /\ Num(distance) # threshold

\* Line 345: distance <= TOUCH_DISTANCE_THRESHOLD.
IsTouch(distance, threshold) == FloatLe(Num(distance), threshold)

\* touched computing the touch fields without a plane as well.
touched_AlwaysClassified(raw, plane) == raw.pose_t # None

\* Lines 302, 339: the touch fields are computed for a detection that has a
\* pose while a plane is stored.
touched(raw, plane) == raw.pose_t # None /\ plane # None

\* Lines 270-347, with the plane read at line 338 and the threshold read at
\* line 345.  A key the result lacks is None.
map_detection(raw, plane, threshold) ==
  LET pos == PoseForTouch(raw.pose_t, raw.tip_cam)
      distance == SurfaceDistance(IF plane # None THEN plane[1]
                                  ELSE [normal |-> Axis(3), d |-> 0], pos)
  IN [id |-> raw.id,
      pose |-> raw.pose_t,
      tipPose |-> IF raw.pose_t # None THEN raw.tip_cam ELSE None,
      surfaceDistance |-> IF touched(raw, plane) THEN Some(Round4(distance)) ELSE None,
      isTouch |-> IF touched(raw, plane) THEN Some(IsTouch(distance, threshold)) ELSE None]

\* Lines 428-437: the detector call succeeds and returns raws, without the
\* poses when pose estimation is off; an empty list is published as it is.
DetectRaw(raws) ==
  /\ det.pc = "detect"
  /\ det' = [det EXCEPT !.pc = IF raws = << >> THEN "publish" ELSE "map",
                        !.raw = IF det.pose_estimation_enabled THEN raws ELSE WithoutPose(raws),
                        !.calls = <<det.pose_estimation_enabled>>,
                        !.result = Ok(<< >>)]
  /\ UNCHANGED <<clock, ctlVars, last, shutdown_event, camera_params, lockVars, sseVars,
                 planeVars, cam, frameVars, stream_clients, streams, tagVars>>

\* Line 451: one detection of the list comprehension is mapped; the plane
\* and the threshold are read anew for each detection.
DetectMapOne ==
  /\ det.pc = "map"
  /\ det' = [det EXCEPT
        !.pc = IF Len(det.raw) = 1 THEN "publish" ELSE "map",
        !.raw = Tail(det.raw),
        !.result = Ok(Append(det.result.detections,
                        map_detection(Head(det.raw), surface_plane, TOUCH_DISTANCE_THRESHOLD)))]
  /\ UNCHANGED <<clock, ctlVars, last, shutdown_event, camera_params, lockVars, sseVars,
                 planeVars, cam, frameVars, stream_clients, streams, tagVars>>

(***************************************************************************)
(* The locks.  Each task is followed statement by statement through the    *)
(* with blocks of its function: a step enters a with block, leaves it,     *)
(* makes a call outside of the shared state, or runs one of the statements *)
(* on the controller state.  A step names the positions that can follow.   *)
(***************************************************************************)
MaxLockSeq == 2         \* heartbeat handlers start while controller_state_seq is below this

Locks ==
  {"camera_lock", "frame_lock", "apriltag_lock", "stream_clients_lock", "controller_lock",
   "surface_plane_lock"}

Enter(lock, next) == [op |-> "enter", arg |-> lock, next |-> next]
Exit(lock, next) == [op |-> "exit", arg |-> lock, next |-> next]
Call(what, next) == [op |-> "call", arg |-> what, next |-> next]
Statement(what, next) == [op |-> what, arg |-> "", next |-> next]

\* camera_loop reading the device inside the camera_lock block.
camera_loop_ReadsUnderLock ==
  << Enter("camera_lock", {2}),
     Call("read", {3}),
     Exit("camera_lock", {1, 4}),
     Enter("stream_clients_lock", {5}),
     Exit("stream_clients_lock", {6, 7}),
     Call("imencode", {7}),
     Enter("frame_lock", {8}),
     Exit("frame_lock", {1}) >>

\* Lines 363-393: camera_loop.  Position 3 is the device read, which fails
\* or delivers a frame; position 6 is the JPEG encode, skipped when nobody
\* watches.
camera_loop ==
  << Enter("camera_lock", {2}),
     Exit("camera_lock", {3}),
     Call("read", {1, 4}),
     Enter("stream_clients_lock", {5}),
     Exit("stream_clients_lock", {6, 7}),
     Call("imencode", {7}),
     Enter("frame_lock", {8}),
     Exit("frame_lock", {1}) >>

\* Lines 409-466: apriltag_loop.  Position 3 is the conversion and the
\* detector call; positions 4-5 are the plane read of _map_detection (lines
\* 337-338), once per detection with a pose; positions 6-7 publish the pass
\* (lines 453-457) and positions 8-9 record its error (lines 459-463).
apriltag_loop ==
  << Enter("frame_lock", {2}),
     Exit("frame_lock", {1, 3}),
     Call("detect", {4, 6, 8}),
     Enter("surface_plane_lock", {5}),
     Exit("surface_plane_lock", {4, 6}),
     Enter("apriltag_lock", {7}),
     Exit("apriltag_lock", {1}),
     Enter("apriltag_lock", {9}),
     Exit("apriltag_lock", {1}) >>

\* api_controller_heartbeat entering frame_lock around its clock read.
api_controller_heartbeat_ReadsFrame ==
  << Enter("frame_lock", {2}),
     Statement("clock", {3}),
     Exit("frame_lock", {4}),
     Enter("controller_lock", {5}),
     Statement("upsert", {6}),
     Exit("controller_lock", {7}),
     Enter("controller_lock", {8}),
     Statement("scan", {9}),
     Statement("purge", {10}),
     Exit("controller_lock", {0}) >>

\* api_controller_heartbeat storing its entry without controller_lock.
api_controller_heartbeat_Unlocked ==
  << Statement("clock", {2}),
     Statement("upsert", {3}),
     Enter("controller_lock", {4}),
     Statement("scan", {5}),
     Statement("purge", {6}),
     Exit("controller_lock", {0}) >>

\* Lines 641-671: api_controller_heartbeat once the body is validated: the
\* clock read (line 641), the upsert under controller_lock (lines 644-666),
\* and get_controller_state_snapshot(now) (lines 175-256) for the response.
api_controller_heartbeat ==
  << Statement("clock", {2}),
     Enter("controller_lock", {3}),
     Statement("upsert", {4}),
     Exit("controller_lock", {5}),
     Enter("controller_lock", {6}),
     Statement("scan", {7}),
     Statement("purge", {8}),
     Exit("controller_lock", {0}) >>

\* build_apriltag_payload entering frame_lock inside the apriltag_lock block.
build_apriltag_payload_Nested ==
  << Enter("apriltag_lock", {2}),
     Enter("frame_lock", {3}),
     Exit("frame_lock", {4}),
     Exit("apriltag_lock", {5}),
     Enter("stream_clients_lock", {6}),
     Exit("stream_clients_lock", {7}),
     Statement("clock", {8}),
     Enter("controller_lock", {9}),
     Statement("scan", {10}),
     Statement("purge", {11}),
     Exit("controller_lock", {0}) >>

\* Lines 927-941: build_apriltag_payload, for GET / and for an iteration of
\* event_stream: three with blocks one after the other, then
\* get_controller_state_snapshot() with its clock read (line 173).
build_apriltag_payload ==
  << Enter("apriltag_lock", {2}),
     Exit("apriltag_lock", {3}),
     Enter("frame_lock", {4}),
     Exit("frame_lock", {5}),
     Enter("stream_clients_lock", {6}),
     Exit("stream_clients_lock", {7}),
     Statement("clock", {8}),
     Enter("controller_lock", {9}),
     Statement("scan", {10}),
     Statement("purge", {11}),
     Exit("controller_lock", {0}) >>

\* Lines 498-527: generate_frames.  Position 5 is the yield, where the
\* generator is suspended until the chunk is written or the client is gone;
\* positions 6-7 are the finally block.
generate_frames ==
  << Enter("stream_clients_lock", {2}),
     Exit("stream_clients_lock", {3, 6}),
     Enter("frame_lock", {4}),
     Exit("frame_lock", {3, 5, 6}),
     Call("yield", {3, 6}),
     Enter("stream_clients_lock", {7}),
     Exit("stream_clients_lock", {0}) >>

\* Lines 549-601: the surface-plane handlers; POST fits the plane first
\* (position 1), then stores it as GET reads and DELETE clears it.
surface_plane_handler ==
  << Call("svd", {2}),
     Enter("surface_plane_lock", {3}),
     Exit("surface_plane_lock", {0}) >>

\* Lines 482-492: _release_camera at exit, after joining the loops for at
\* most a second each; the device is closed inside the camera_lock block.
release_camera ==
  << Enter("camera_lock", {2}),
     Call("release", {3}),
     Exit("camera_lock", {0}) >>

HeartbeatTasks == {"heartbeat1", "heartbeat2"}
Tasks == {"capture", "detection", "payload", "mjpeg", "plane", "atexit"} \cup HeartbeatTasks

Program(t) ==
  CASE t = "capture" -> camera_loop
    [] t = "detection" -> apriltag_loop
    [] t \in HeartbeatTasks -> api_controller_heartbeat
    [] t = "payload" -> build_apriltag_payload
    [] t = "mjpeg" -> generate_frames
    [] t = "plane" -> surface_plane_handler
    [] t = "atexit" -> release_camera

\* A task that is not running: position 0.
TaskIdle == [pc |-> 0, now |-> 0, body |-> None, acc |-> None]

Instr(t) == Program(t)[task[t].pc]
AtOp(t, op) == task[t].pc # 0 /\ Instr(t).op = op
HeldBy(t) == {lock \in Locks : held[lock] = t}

\* A thread is started, or a request handler is called.
TaskStart(t) ==
  /\ t \notin HeartbeatTasks
  /\ task[t].pc = 0
  /\ task' = [task EXCEPT ![t].pc = 1]
  /\ UNCHANGED <<clock, ctlVars, last, loopVars, held>>

\* Lines 620-639: the heartbeat handler is called with a body that passes
\* the validation.
HeartbeatStart(t, payload) ==
  /\ t \in HeartbeatTasks
  /\ task[t].pc = 0
  /\ HeartbeatError(payload) = ""
  /\ controller_state_seq < MaxLockSeq
  /\ task' = [task EXCEPT ![t].pc = 1, ![t].body = Some(payload)]
  /\ UNCHANGED <<clock, ctlVars, last, loopVars, held>>

\* with lock: the task waits until the lock is free and takes it.
TaskAcquire(t) ==
  /\ AtOp(t, "enter")
  /\ held[Instr(t).arg] = ""
  /\ held' = [held EXCEPT ![Instr(t).arg] = t]
  /\ \E n \in Instr(t).next : task' = [task EXCEPT ![t].pc = n]
  /\ UNCHANGED <<clock, ctlVars, last, loopVars>>

\* The end of a with block releases its lock.
TaskRelease(t) ==
  /\ AtOp(t, "exit")
  /\ held' = [held EXCEPT ![Instr(t).arg] = ""]
  /\ \E n \in Instr(t).next : task' = [task EXCEPT ![t].pc = n]
  /\ UNCHANGED <<clock, ctlVars, last, loopVars>>

\* A call that works outside of the shared state returns.
TaskCall(t) ==
  /\ AtOp(t, "call")
  /\ \E n \in Instr(t).next : task' = [task EXCEPT ![t].pc = n]
  /\ UNCHANGED <<clock, ctlVars, last, loopVars, held>>

\* Lines 641 and 173: now = time.time().
TaskReadClock(t) ==
  /\ AtOp(t, "clock")
  /\ \E n \in Instr(t).next : task' = [task EXCEPT ![t].pc = n, ![t].now = clock]
  /\ UNCHANGED <<clock, ctlVars, last, loopVars, held>>

\* Lines 645-666: next_state is built, compared and stored.
TaskUpsert(t) ==
  /\ AtOp(t, "upsert")
  /\ LET next_state == NextState(task[t].body[1], task[t].now)
         changed == Changed(controller_clients, next_state)
     IN /\ controller_clients' = DictAssign(controller_clients, next_state)
        /\ controller_state_seq' = SeqAfterUpsert(controller_state_seq, changed)
        /\ last' = [NoOp EXCEPT !.op = "heartbeat_upsert", !.client_id = next_state.clientId,
                                !.changed = changed]
  /\ snap' = None
  /\ \E n \in Instr(t).next : task' = [task EXCEPT ![t].pc = n]
  /\ UNCHANGED <<clock, hb, loopVars, held>>

\* Lines 176-222: the scan classifies the entries and collects the maps.
TaskScan(t) ==
  /\ AtOp(t, "scan")
  /\ \E n \in Instr(t).next :
        task' = [task EXCEPT ![t].pc = n,
                             ![t].acc = Some(Scan(controller_clients, task[t].now,
                                                  Len(controller_clients)))]
  /\ UNCHANGED <<clock, ctlVars, last, loopVars, held>>

\* Lines 224-256: the entries classified as expired are popped, the
\* sequence advances when there were any, and the dict is returned.
TaskPurge(t) ==
  /\ AtOp(t, "purge")
  /\ LET acc == task[t].acc[1] IN
     /\ controller_clients' = ClientsAfterPurge(controller_clients, acc.expired_ids)
     /\ controller_state_seq' = SeqAfterPurge(controller_state_seq, acc.expired_ids)
     /\ snap' = Some([now |-> task[t].now, result |-> ReturnedDict(acc, controller_state_seq')])
     /\ last' = [NoOp EXCEPT
                   !.op = IF t \in HeartbeatTasks THEN "heartbeat_respond" ELSE "snapshot",
                   !.purged = Len(acc.expired_ids)]
  /\ \E n \in Instr(t).next :
        task' = [task EXCEPT ![t].pc = n, ![t].body = None, ![t].acc = None]
  /\ UNCHANGED <<clock, hb, loopVars, held>>

\* The steps of a task that is running.
TaskRuns(t) ==
  \/ TaskAcquire(t) \/ TaskRelease(t) \/ TaskCall(t) \/ TaskReadClock(t)
  \/ TaskUpsert(t) \/ TaskScan(t) \/ TaskPurge(t)

\* The tasks T entering and leaving their with blocks.
NextTasks(T) ==
  \/ \E t \in T : TaskStart(t)
  \/ \E t \in T : TaskAcquire(t)
  \/ \E t \in T : TaskRelease(t)

\* The calls of the tasks T that work outside of the shared state.
NextCalls(T) == \E t \in T : TaskCall(t)

\* The statements of get_controller_state_snapshot in the tasks T.
NextSnapshots(T) ==
  \/ \E t \in T : TaskReadClock(t)
  \/ \E t \in T : TaskScan(t)
  \/ \E t \in T : TaskPurge(t)

\* The heartbeat handlers among T, their bodies drawn from bodies.
NextHeartbeats(T, bodies) ==
  \/ \E t \in T, payload \in bodies : HeartbeatStart(t, payload)
  \/ \E t \in T : TaskUpsert(t)

\* The body the heartbeat handlers are called with: client a drawing.
TaskBodies == {DrawBody("a")}

InitLocks ==
  /\ held = [lock \in Locks |-> ""]
  /\ task = [t \in Tasks |-> TaskIdle]

(***************************************************************************)
(* Initial state: the module's globals (lines 39-58) once main has opened  *)
(* the camera and built the detector.                                      *)
(***************************************************************************)
InitCamWith(detection_task) ==
  /\ shutdown_event = FALSE
  /\ camera_params \in BOOLEAN
  /\ cam = CamIdle
  /\ latest_frame = None
  /\ latest_jpeg = None
  /\ latest_frame_seq = 0
  /\ latest_frame_updated_at = 0
  /\ latest_frame_width = 0
  /\ latest_frame_height = 0
  /\ stream_clients = 0
  /\ streams = [c \in Streams |-> StreamNew]
  /\ det = detection_task
  /\ latest_apriltags = << >>
  /\ latest_apriltag_updated_at = 0
  /\ latest_apriltag_seq = 0
  /\ apriltag_error = None
  /\ sse = SseNew
  /\ surface_plane = None
  /\ TOUCH_DISTANCE_THRESHOLD = Num(TOUCH_DISTANCE_THRESHOLD_DEFAULT)
  /\ api = NoResponse

\* Lines 404-407: with a detector, the detection task enters its loop with
\* pose estimation on when the intrinsics are loaded.
InitCam == InitCamWith(DetIdle(-1, camera_params))

(***************************************************************************)
(* The controller: heartbeats and snapshots.                               *)
(***************************************************************************)
InitCtl ==
  /\ clock = 0
  /\ controller_clients = << >>
  /\ controller_state_seq = 0
  /\ hb = [h \in Handlers |-> None]
  /\ snap = None
  /\ last = NoOp

Init == InitCtl /\ InitCam /\ InitLocks

\* The process started without a detector.
InitUnavailable == InitCtl /\ InitCamWith(DetUnavailable) /\ InitLocks

NextRejected(bodies) == \E payload \in bodies : HeartbeatRejected(payload)

NextCtl(bodies) ==
  \/ \E h \in Handlers, payload \in bodies, now \in Instants : HeartbeatUpsert(h, payload, now)
  \/ \E h \in Handlers : HeartbeatRespond(h)
  \/ \E now \in Instants : ControllerSnapshot(now)

NextTick(instants) == \E t \in instants : Tick(t)

NextResolve(bodies, instants) ==
  \/ \E h \in Handlers, payload \in bodies, now \in instants :
        HeartbeatUpsertUpTo(h, payload, now, MaxResolveSeq)
  \/ \E h \in Handlers : HeartbeatRespond(h)
  \/ \E now \in instants : ControllerSnapshot(now)

vars == <<clock, ctlVars, last, camVars>>

(***************************************************************************)
(* The capture loop, the MJPEG connections and the detection loop.        *)
(***************************************************************************)
\* The capture loop while no MJPEG connection exists: stream_clients stays 0
\* and the encoding branch (lines 382-385) is never entered.
NextCaptureUnwatched(frames) ==
  \/ CaptureExit
  \/ \E frame \in frames : CaptureRead(frame)
  \/ CaptureReadFailed
  \/ CaptureRetry
  \/ CaptureSample
  \/ CapturePublish

NextCapture(frames) ==
  \/ NextCaptureUnwatched(frames)
  \/ \E ok \in BOOLEAN : CaptureEncode(ok)

NextStreams(S) ==
  \/ \E c \in S : StreamStart(c)
  \/ \E c \in S : StreamIdle(c)
  \/ \E c \in S : StreamYield(c)
  \/ \E c \in S : StreamResume(c)
  \/ \E c \in S : StreamShutdown(c)
  \/ \E c \in S : StreamDisconnect(c)
  \/ \E c \in S : StreamError(c)
  \/ \E c \in S : StreamFinally(c)

\* event_stream while less than the keepalive period passes.
NextSsePolling(instants) ==
  \/ SseStart
  \/ SseShutdown
  \/ SseReadDetections
  \/ \E now \in instants : SseSnapshot(now)
  \/ SseSendData
  \/ SseResumeData
  \/ SseSleep
  \/ SseDisconnect

NextSse(instants) ==
  \/ NextSsePolling(instants)
  \/ SseSendKeepalive
  \/ SseResumeKeepalive

NextDetect(lists, messages) ==
  \/ DetectExit
  \/ DetectIdle
  \/ DetectTake
  \/ \E detections \in lists : DetectOk(detections)
  \/ \E msg \in messages, fallback \in {Ok(d) : d \in lists} \cup {Raised(m) : m \in messages} :
        DetectRaises(msg, fallback)
  \/ DetectPublish
  \/ DetectPublishError

(***************************************************************************)
(* Specifications.                                                         *)
(***************************************************************************)
\* The start with the camera intrinsics loaded (--camera-params given).
InitCalibrated == Init /\ camera_params = TRUE

\* The controller alone, with two clients.
SpecCtl ==
  InitCalibrated
    /\ [][NextCtl(AcceptedBodies) \/ NextRejected(RejectedBodies) \/ NextTick(Instants)]_vars

\* Client a draws on tag 7 or, inactive, reports note text, a note session,
\* a finalize tick or nothing on it; client b takes notes on tag 7, draws
\* on tag 3 or, inactive, reports another note text on tag 7.
Inactive(client, text, session, tick) ==
  Body(JStr(client), JBool(FALSE), JStr("eraser"), JInt(7), text, JBool(session), JInt(tick))
ResolveBodies ==
  { DrawBody("a"),
    Inactive("a", JRep("x", 2), FALSE, 0),
    Inactive("a", JNull, TRUE, 0),
    Inactive("a", JNull, FALSE, 5),
    Inactive("a", JNull, FALSE, -5),
    NoteBody("b"),
    [DrawBody("b") EXCEPT !.triggerTagId = JInt(3)],
    Inactive("b", JRep("y", 1), FALSE, 0) }
ResolveInstants == {0, 632, 808}

\* Two controller clients and the snapshots that resolve their candidates.
SpecResolve ==
  InitCalibrated /\ [][NextResolve(ResolveBodies, ResolveInstants) \/ NextTick(ResolveInstants)]_vars

\* The capture loop serving two MJPEG connections.
SpecStream ==
  Init /\ [][NextCapture(Frames) \/ NextStreams(Streams) \/ Shutdown \/ NextTick(Instants)]_vars

\* The requests of the plane and threshold endpoints.
P0(x, y) == Point(JInt(x), JInt(y), JInt(0))
PlaneRequests ==
  { PlaneRequest(FALSE, FALSE, << >>),
    PlaneRequest(TRUE, FALSE, << >>),
    PlaneRequest(TRUE, TRUE, <<P0(0, 0), P0(1000, 0)>>),
    PlaneRequest(TRUE, TRUE, <<P0(0, 0), P0(1000, 0), P0(0, 1000), P0(1000, 1000)>>),
    PlaneRequest(TRUE, TRUE, <<Point(JInt(1000), JInt(0), JInt(0)), Point(JInt(1000), JInt(500), JInt(0)),
                               Point(JInt(1000), JInt(0), JInt(500))>>),
    PlaneRequest(TRUE, TRUE, <<P0(0, 0), P0(1000, 0), NotAPoint>>),
    PlaneRequest(TRUE, TRUE, <<P0(0, 0), P0(1000, 0), [P0(0, 1000) EXCEPT !.has = {"x", "y"}]>>),
    PlaneRequest(TRUE, TRUE, <<P0(0, 0), P0(1000, 0), Point(JInt(0), JNull, JInt(0))>>),
    PlaneRequest(TRUE, TRUE, <<P0(0, 0), P0(1000, 0), Point(JInt(0), JStr("abc"), JInt(0))>>),
    PlaneRequest(TRUE, TRUE, <<P0(0, 0), P0(1000, 0), Point(JInt(0), JHuge, JInt(0))>>) }

ThresholdRequests ==
  { ThresholdRequest(FALSE, JNull) } \cup
  { ThresholdRequest(TRUE, j) : j \in {JNull, JStr("abc"), JBool(TRUE), JInt(0), JInt(-5000),
                                       JInt(5000), JNaN} }

NextPlane(planeRequests, thresholdRequests) ==
  \/ \E request \in planeRequests, normal \in UNION {{Axis(i), Negated(Axis(i))} : i \in 1..3} :
        api_surface_plane(request, normal)
  \/ api_surface_plane_delete
  \/ api_surface_plane_get
  \/ \E request \in thresholdRequests : api_touch_threshold(request)

\* The detections of a pass: poses 5 mm, 18 mm, 18.001 mm and 50 mm in
\* front of the plane z = 0.
At(z) == Some(<<1000, 0, z>>)
RawLists ==
  { << >>,
    <<RawDetection(1, At(5000), None), RawDetection(2, At(5000), At(50000))>>,
    <<RawDetection(3, At(50000), At(18000)), RawDetection(4, None, None)>>,
    <<RawDetection(5, At(-18001), None)>> }

NextDetectTouch(rawLists) ==
  \/ DetectExit
  \/ DetectIdle
  \/ DetectTake
  \/ \E raws \in rawLists : DetectRaw(raws)
  \/ DetectMapOne
  \/ DetectPublish

\* The plane and threshold endpoints alone.
SpecPlane ==
  InitCalibrated /\ [][NextPlane(PlaneRequests, ThresholdRequests)]_vars

\* Calibration, clearing and two thresholds beside the capture and
\* detection loops.
TouchPlaneRequests ==
  { PlaneRequest(TRUE, TRUE, <<P0(0, 0), P0(1000, 0), P0(0, 1000), P0(1000, 1000)>>) }
TouchThresholdRequests == { ThresholdRequest(TRUE, JInt(5000)), ThresholdRequest(TRUE, JInt(18000)) }
SpecTouch ==
  InitCalibrated
  /\ [][NextPlane(TouchPlaneRequests, TouchThresholdRequests) \/ NextCaptureUnwatched({"f1"})
        \/ NextDetectTouch(RawLists) \/ Shutdown]_vars

\* The capture loop feeding the detection loop, with no MJPEG connection.
SpecDetect ==
  Init /\ [][NextCaptureUnwatched(Frames) \/ NextDetect(DetectionLists, Messages)
              \/ Shutdown \/ NextTick(Instants)]_vars

\* One controller client, and requests with invalid bodies.
SpecReject ==
  InitCalibrated
    /\ [][NextCtl({DrawBody("a")}) \/ NextRejected(InvalidBodies) \/ NextTick({808})]_vars

\* The instants of the SSE scenario: a start at 0 or 808 ms, and 14.999 s,
\* 15 s and 30 s after 808 ms.
SseInstants == {0, 808, 15807, 15808, 30808}

\* A second body of client a, moving it from the draw tool to the note tool.

\* One SSE connection polling while the detection loop and one controller
\* client move the two sequences it watches.
SpecSsePairs ==
  InitCalibrated
    /\ [][NextSsePolling({0}) \/ NextCtl({DrawBody("a"), NoteBody("a")})
            \/ NextCaptureUnwatched({"f1"}) \/ NextDetect({<< >>}, {"detector failed"})
            \/ Shutdown]_vars

\* One SSE connection over 30 s, with one controller client.
SpecSse ==
  InitCalibrated
    /\ [][NextSse(SseInstants) \/ NextCtl({DrawBody("a")}) \/ Shutdown
            \/ NextTick(SseInstants)]_vars

\* The steps of MJPEG connection c once it has started.
StreamRuns(c) ==
  \/ StreamYield(c) \/ StreamResume(c) \/ StreamShutdown(c)
  \/ StreamDisconnect(c) \/ StreamError(c) \/ StreamFinally(c)

NextShutdown ==
  \/ NextCapture({"f1"})
  \/ NextStreams({"s1"})
  \/ NextDetect({<< >>}, {"detector failed"})
  \/ NextSsePolling({0})
  \/ Shutdown

\* The two loops, one MJPEG connection and one SSE connection up to and
\* after shutdown.  Every thread keeps being scheduled, and the server
\* either resumes a suspended generator or closes it.
SpecShutdown ==
  /\ InitCalibrated
  /\ [][NextShutdown]_vars
  /\ WF_vars(NextCapture({"f1"}))
  /\ WF_vars(NextDetect({<< >>}, {"detector failed"}))
  /\ WF_vars(NextSsePolling({0}))
  /\ WF_vars(StreamRuns("s1"))

\* The two loops with the calls of an iteration raising, and one MJPEG
\* connection.
SpecLoopErrors ==
  InitCalibrated
  /\ [][NextCapture({"f1"}) \/ CaptureRaises \/ NextStreams({"s1"})
        \/ NextDetect({<< >>}, {"detector failed"}) \/ Shutdown]_vars

\* The image the camera delivers for a tick: the two images in turn.
FrameOfTick(n) == IF n % 2 = 1 THEN "f1" ELSE "f2"

\* The capture loop fed a different image at each tick, with its readers:
\* one MJPEG connection and the detection loop.
SpecAtomic ==
  InitCalibrated
  /\ [][NextCapture({FrameOfTick(latest_frame_seq + 1)}) \/ NextStreams({"s1"})
        \/ NextDetect({<< >>}, {"detector failed"}) \/ Shutdown \/ NextTick({808})]_vars

NextUnavailable ==
  \/ DetectUnavailable
  \/ NextCapture({"f1"})
  \/ NextStreams({"s1"})
  \/ Shutdown

\* A process without a detector: the detection task, the capture loop and
\* one MJPEG connection.  The capture thread keeps being scheduled and a
\* camera that is read again and again delivers a frame again and again.
SpecUnavailable ==
  /\ InitUnavailable
  /\ [][NextUnavailable]_vars
  /\ WF_vars(DetectUnavailable)
  /\ WF_vars(NextCapture({"f1"}))
  /\ SF_vars(CaptureRead("f1"))

\* Every task together: the two loops, one MJPEG connection and one
\* controller client, over one frame image, one instant past the TTL and
\* one detector failure, with the camera intrinsics loaded.
Next ==
  \/ NextCtl({DrawBody("a")})
  \/ NextCapture({"f1"})
  \/ NextStreams({"s1"})
  \/ NextDetect({<< [id |-> 7] >>}, {"detector failed"})
  \/ Shutdown
  \/ NextTick({808})

Spec == InitCalibrated /\ [][Next]_vars

(***************************************************************************)
(* Steps, as seen from the state before and after.                         *)
(***************************************************************************)
\* A heartbeat handler has stored its entry.
IsUpsertStep == \E h \in Handlers : hb[h] = None /\ hb'[h] # None

\* get_controller_state_snapshot has run: for a heartbeat's response, or on its own.
IsSnapshotStep ==
  /\ snap' # None
  /\ \/ \E h \in Handlers : hb[h] # None /\ hb'[h] = None
     \/ /\ last'.op = "snapshot"
        /\ UNCHANGED <<hb, clock, camVars>>

\* The capture loop has published a tick.
IsCapturePublishStep == cam.pc = "publish" /\ cam'.pc = "read"

\* The detection loop has published a pass.
IsDetectPublishStep == det.pc = "publish" /\ det'.pc = "poll"

ClientIds(clients) == {clients[i].clientId : i \in 1..Len(clients)}

(***************************************************************************)
(* C1.  TTL expiry: a snapshot(now) counts an entry stamped t0 as live,    *)
(* keeps it and includes its contributions when now - t0 <= TTL, and       *)
(* excludes and removes it when now - t0 > TTL; an entry aged exactly TTL  *)
(* is still live.                                                          *)
(***************************************************************************)
C1_TtlExpiry ==
  [][IsSnapshotStep =>
      LET now == snap'[1].now
          result == snap'[1].result
          live == {i \in 1..Len(controller_clients) :
                     now - controller_clients[i].updatedAt <= CONTROLLER_HEARTBEAT_TTL_SEC}
          toolOn(k) == {i \in live : /\ controller_clients[i].active
                                     /\ controller_clients[i].triggerTagId # None
                                     /\ ToString(controller_clients[i].triggerTagId[1]) = k}
          noteOn(k) == {i \in live : /\ controller_clients[i].triggerTagId # None
                                     /\ ToString(controller_clients[i].triggerTagId[1]) = k
                                     /\ \/ controller_clients[i].noteText # EmptyText
                                        \/ controller_clients[i].noteSessionActive
                                        \/ controller_clients[i].noteFinalizeTick > 0}
      IN /\ result.activeClients = Cardinality(live)
         /\ ClientIds(controller_clients') = {controller_clients[i].clientId : i \in live}
         /\ \A i \in live :
              controller_clients[i].triggerTagId # None =>
                LET k == ToString(controller_clients[i].triggerTagId[1]) IN
                /\ i \in toolOn(k) => k \in DOMAIN result.activeToolByTriggerTagId
                /\ i \in noteOn(k) => k \in DOMAIN result.remoteNoteStateByTriggerTagId
         /\ \A k \in DOMAIN result.activeToolByTriggerTagId :
              \E i \in toolOn(k) : controller_clients[i].tool = result.activeToolByTriggerTagId[k]
         /\ \A k \in DOMAIN result.remoteNoteStateByTriggerTagId :
              \E i \in noteOn(k) :
                controller_clients[i].noteText = result.remoteNoteStateByTriggerTagId[k].text
  ]_vars

\* A snapshot taken exactly TTL after the heartbeat has counted and kept the client.
C1_Witness ==
  /\ snap # None
  /\ last.op \in {"snapshot", "heartbeat_respond"}
  /\ Len(controller_clients) = 1
  /\ snap[1].now - controller_clients[1].updatedAt = CONTROLLER_HEARTBEAT_TTL_SEC
  /\ snap[1].result.activeClients = 1
  /\ DOMAIN snap[1].result.activeToolByTriggerTagId = {"7"}

(***************************************************************************)
(* C2.  A snapshot that finds expired entries removes all of them and      *)
(* advances the state sequence by exactly one, and returns the advanced    *)
(* sequence; one that finds none leaves the dict and the sequence alone.   *)
(***************************************************************************)
C2_PurgeAdvancesSeq ==
  [][IsSnapshotStep =>
      LET now == snap'[1].now
          result == snap'[1].result
          fresh(e) == ~(now - e.updatedAt > CONTROLLER_HEARTBEAT_TTL_SEC)
      IN IF \E i \in 1..Len(controller_clients) : ~fresh(controller_clients[i])
         THEN /\ controller_clients' = SelectSeq(controller_clients, fresh)
              /\ controller_state_seq' = controller_state_seq + 1
              /\ result.seq = controller_state_seq'
         ELSE /\ controller_clients' = controller_clients
              /\ controller_state_seq' = controller_state_seq
              /\ result.seq = controller_state_seq
  ]_vars

\* One snapshot has removed two expired entries.
C2_Witness ==
  /\ snap # None
  /\ last.op \in {"snapshot", "heartbeat_respond"}
  /\ last.purged = 2
  /\ snap[1].result.seq = controller_state_seq

(***************************************************************************)
(* C3.  Scenario: with only client a in the dict (active, draw, tag 7), a  *)
(* snapshot within the TTL returns {"7": "draw"} and [7]; a snapshot 1 s   *)
(* after the heartbeat returns no active client, empty maps and a state    *)
(* sequence greater than that of the earlier snapshot.                     *)
(***************************************************************************)
ScenarioEntry(e) ==
  /\ e.clientId = "a"
  /\ e.active
  /\ e.tool = "draw"
  /\ e.triggerTagId = Some(7)
  /\ e.noteText = EmptyText /\ ~e.noteSessionActive /\ e.noteFinalizeTick = 0

C3_Scenario ==
  [][(IsSnapshotStep /\ Len(controller_clients) = 1 /\ ScenarioEntry(controller_clients[1])) =>
      LET now == snap'[1].now
          result == snap'[1].result
          t0 == controller_clients[1].updatedAt
      IN /\ now - t0 <= CONTROLLER_HEARTBEAT_TTL_SEC =>
              /\ result.activeToolByTriggerTagId = ("7" :> "draw")
              /\ result.activeDrawTriggerTagIds = <<7>>
         /\ now - t0 >= 1000 =>
              /\ result.activeClients = 0
              /\ DOMAIN result.activeToolByTriggerTagId = {}
              /\ DOMAIN result.remoteNoteStateByTriggerTagId = {}
              /\ result.activeDrawTriggerTagIds = << >>
              /\ result.seq > controller_state_seq
              /\ snap # None => result.seq > snap[1].result.seq
  ]_vars

\* The heartbeat of client a at t0 was answered by a snapshot within the
\* TTL, no heartbeat followed, and the clock stands at t0 + 1 s.
C3_Witness ==
  /\ Len(controller_clients) = 1
  /\ ScenarioEntry(controller_clients[1])
  /\ snap # None
  /\ snap[1].now - controller_clients[1].updatedAt <= CONTROLLER_HEARTBEAT_TTL_SEC
  /\ snap[1].result.activeToolByTriggerTagId = ("7" :> "draw")
  /\ snap[1].result.activeDrawTriggerTagIds = <<7>>
  /\ clock = controller_clients[1].updatedAt + 1000
  /\ hb = [h \in Handlers |-> None]

(***************************************************************************)
(* C4.  An accepted heartbeat advances the state sequence iff one of       *)
(* active, tool, triggerTagId, noteText, noteSessionActive and             *)
(* noteFinalizeTick, as sanitised, differs from the entry stored for the   *)
(* client (a client with no stored entry differs); an identical heartbeat  *)
(* refreshes updatedAt only.                                               *)
(***************************************************************************)
C4_AdvanceIffChanged ==
  [][IsUpsertStep =>
      LET i == IndexOf(controller_clients, last'.client_id)
          j == IndexOf(controller_clients', last'.client_id)
          old == controller_clients[i]
          new == controller_clients'[j]
          differs == \/ i = 0
                     \/ old.active # new.active
                     \/ old.tool # new.tool
                     \/ old.triggerTagId # new.triggerTagId
                     \/ old.noteText # new.noteText
                     \/ old.noteSessionActive # new.noteSessionActive
                     \/ old.noteFinalizeTick # new.noteFinalizeTick
      IN /\ j # 0
         /\ differs => controller_state_seq' = controller_state_seq + 1
         /\ ~differs => /\ controller_state_seq' = controller_state_seq
                        /\ controller_clients' =
                             [controller_clients EXCEPT ![i].updatedAt = new.updatedAt]
         /\ last'.changed = differs
  ]_vars

\* A heartbeat identical to the stored entry has refreshed it at a later instant.
C4_Witness ==
  /\ last.op = "heartbeat_upsert"
  /\ ~last.changed
  /\ IndexOf(controller_clients, last.client_id) # 0
  /\ controller_clients[IndexOf(controller_clients, last.client_id)].updatedAt > 0
  /\ controller_state_seq = 1

(***************************************************************************)
(* C5.  The frame sequence, the detection sequence and the controller      *)
(* state sequence never decrease, whatever the interleaving of the         *)
(* capture loop, the detection loop, heartbeats, snapshots and streams.    *)
(***************************************************************************)
C5_SequencesNeverDecrease ==
  [][/\ latest_frame_seq' >= latest_frame_seq
     /\ latest_apriltag_seq' >= latest_apriltag_seq
     /\ controller_state_seq' >= controller_state_seq]_vars

\* All three sequences have advanced twice, with a stream connected.
C5_Witness ==
  /\ latest_frame_seq = 2
  /\ latest_apriltag_seq = 2
  /\ controller_state_seq = 2
  /\ stream_clients = 1

(***************************************************************************)
(* C6.  As claimed: the detection sequence increases only when the         *)
(* detections or the error message change, so a successful pass that       *)
(* publishes the same detections as the successful pass before it does     *)
(* not advance the detection sequence.                                     *)
(***************************************************************************)
C6_IdenticalPassKeepsSeq ==
  [][(/\ IsDetectPublishStep
      /\ det.result.kind = "ok"
      /\ latest_apriltag_seq > 0
      /\ apriltag_error = None
      /\ det.result.detections = latest_apriltags)
       => latest_apriltag_seq' = latest_apriltag_seq]_vars

(***************************************************************************)
(* C7.  A successful capture tick increases the frame sequence by exactly  *)
(* one and replaces the published frame; a failed read leaves frame,       *)
(* encoded bytes, dimensions, sequence and timestamp unchanged and the     *)
(* loop retries.                                                           *)
(***************************************************************************)
C7_CaptureTick ==
  [][/\ IsCapturePublishStep =>
           /\ latest_frame_seq' = latest_frame_seq + 1
           /\ latest_frame' = cam.frame
           /\ latest_frame_width' = Width(cam.frame[1])
           /\ latest_frame_height' = Height(cam.frame[1])
           /\ latest_frame_updated_at' = clock
           /\ latest_jpeg' \in {None, Some(Jpeg(cam.frame[1]))}
     /\ (cam.pc = "read" /\ cam'.pc = "sleep") =>
           /\ UNCHANGED frameVars
           /\ cam'.frame = None
     /\ (cam.pc = "sleep" /\ cam'.pc # "sleep") => (cam'.pc = "read" /\ UNCHANGED frameVars)
     /\ ~IsCapturePublishStep => UNCHANGED frameVars
  ]_vars

\* A read has failed after a tick was published with its encoded frame.
C7_Witness ==
  /\ cam.pc = "sleep"
  /\ latest_frame_seq = 1
  /\ latest_frame # None
  /\ latest_jpeg # None
  /\ latest_frame_updated_at > 0

(***************************************************************************)
(* C8.  A failed detection pass records its message as the current error   *)
(* and advances the detection sequence by one iff the message differs      *)
(* from the error recorded before the pass.                                *)
(***************************************************************************)
C8_ErrorPass ==
  [][(IsDetectPublishStep /\ det.result.kind = "error") =>
        /\ apriltag_error' = Some(det.result.message)
        /\ apriltag_error # Some(det.result.message) =>
              latest_apriltag_seq' = latest_apriltag_seq + 1
        /\ apriltag_error = Some(det.result.message) =>
              latest_apriltag_seq' = latest_apriltag_seq
        /\ UNCHANGED <<latest_apriltags, latest_apriltag_updated_at>>
  ]_vars

\* A second pass has failed with the message already recorded.
C8_Witness ==
  /\ det.pc = "publish"
  /\ det.result.kind = "error"
  /\ apriltag_error = Some(det.result.message)
  /\ latest_apriltag_seq = 1
  /\ det.seq = 2

(***************************************************************************)
(* C9.  The subscriber count equals the number of MJPEG generators that    *)
(* have started and not yet exited, is never negative, and is 0 once all   *)
(* of them have exited.                                                    *)
(***************************************************************************)
Running == {c \in Streams : streams[c].pc \in {"loop", "yield", "finally"}}

C9_SubscriberCount ==
  /\ stream_clients = Cardinality(Running)
  /\ stream_clients >= 0
  /\ (\A c \in Streams : streams[c].pc = "done") => stream_clients = 0

\* Both connections have streamed a frame and exited.
C9_Witness ==
  /\ \A c \in Streams : streams[c].pc = "done" /\ streams[c].last_seq > 0
  /\ stream_clients = 0

(***************************************************************************)
(* C10.  As claimed: whenever the subscriber count is 0 the frame state    *)
(* holds no encoded frame.                                                 *)
(***************************************************************************)
C10_NoJpegWithoutSubscribers == stream_clients = 0 => latest_jpeg = None

\* C10, amended: a capture tick encodes and publishes a JPEG only if the
\* subscriber count it sampled was greater than 0; a tick that sampled 0
\* publishes none and so clears the one published before; the encoded
\* frame changes at no other step, so one published while a subscriber was
\* connected stays until the next tick.
C10_EncodeGatedBySample ==
  [][/\ (cam.pc = "sample" /\ cam'.pc # "sample") =>
           /\ cam'.should_encode = (stream_clients > 0)
           /\ cam'.pc = IF stream_clients > 0 THEN "encode" ELSE "publish"
     /\ cam'.jpeg_bytes # cam.jpeg_bytes /\ cam'.jpeg_bytes # None =>
           cam.pc = "encode" /\ cam.should_encode
     /\ IsCapturePublishStep =>
           /\ latest_jpeg' # None => cam.should_encode
           /\ ~cam.should_encode => latest_jpeg' = None
     /\ latest_jpeg' # latest_jpeg => IsCapturePublishStep
  ]_vars

\* The last subscriber has gone and the frame state still holds the
\* encoded frame of an earlier tick, which the tick in progress will clear.
C10_Witness ==
  /\ stream_clients = 0
  /\ latest_jpeg # None
  /\ cam.pc = "publish"
  /\ ~cam.should_encode

(***************************************************************************)
(* C11.  An MJPEG connection emits a chunk only when an encoded frame      *)
(* exists whose frame sequence differs from the one it sent last; the      *)
(* sequences of the chunks of one connection are strictly increasing, so   *)
(* no frame is sent twice on a connection.                                 *)
(***************************************************************************)
C11_ChunksStrictlyIncrease ==
  [][\A c \in Streams :
       /\ (streams[c].pc = "loop" /\ streams'[c].pc = "yield") =>
             /\ latest_jpeg # None
             /\ latest_frame_seq # streams[c].last_seq
             /\ streams'[c].last_seq = latest_frame_seq
             /\ streams'[c].last_seq > streams[c].last_seq
       /\ streams'[c].last_seq # streams[c].last_seq =>
             (streams[c].pc = "loop" /\ streams'[c].pc = "yield")
  ]_vars

\* A connection that has sent frame 1 polls while frame 1 is still the
\* published one, and the other connection emits its second chunk.
C11_Witness ==
  /\ streams["s1"].pc = "loop"
  /\ streams["s1"].last_seq = 1
  /\ latest_frame_seq = 1
  /\ latest_jpeg # None
  /\ streams["s2"].pc = "done"
  /\ streams["s2"].last_seq = 1

(***************************************************************************)
(* C12.  An SSE iteration sends a data event iff the pair (detection       *)
(* sequence, controller sequence) of the payload it has just built         *)
(* differs from the pair of the data event the connection sent last; the   *)
(* first iteration always sends one, and two consecutive data events       *)
(* never carry the same pair.                                              *)
(***************************************************************************)
IsSseDataStep == sse.pc = "compare" /\ sse'.pc = "data"

C12_DataEventIffPairChanged ==
  [][/\ (sse.pc = "compare" /\ sse'.pc # "compare") =>
           (IsSseDataStep <=> sse.sent # Some(<<sse.seq, sse.controller_seq>>))
     /\ IsSseDataStep =>
           /\ sse'.sent = Some(<<sse.seq, sse.controller_seq>>)
           /\ sse'.sent # sse.sent
     /\ (sse.pc = "compare" /\ sse.iterations = 1 /\ sse'.pc # "compare") => IsSseDataStep
     /\ sse'.sent # sse.sent => IsSseDataStep
  ]_vars

\* A later iteration sends a data event after both sequences have moved,
\* the controller sequence twice.
C12_Witness ==
  /\ sse.pc = "data"
  /\ sse.iterations = 2
  /\ sse.sent = Some(<<1, 2>>)

(***************************************************************************)
(* C13.  An SSE connection emits a keepalive only in an iteration where    *)
(* the sequence pair is unchanged and at least 15 s have passed since its  *)
(* last data event or keepalive; a data event and a keepalive both         *)
(* restart the timer, so a keepalive never follows a keepalive or a data   *)
(* event by less than 15 s.                                                *)
(***************************************************************************)
IsSseKeepaliveStep == sse.pc = "compare" /\ sse'.pc = "keepalive"

C13_KeepaliveAfterQuietPeriod ==
  [][/\ IsSseKeepaliveStep =>
           /\ sse.sent = Some(<<sse.seq, sse.controller_seq>>)
           /\ sse.emitted \in {"data", "keepalive"}
           /\ clock - sse.emitted_at >= SSE_KEEPALIVE_SEC
           /\ clock - sse.last_keepalive_at >= SSE_KEEPALIVE_SEC
     /\ (sse.pc = "data" /\ sse'.pc = "loop") => sse'.last_keepalive_at = clock
     /\ (sse.pc = "keepalive" /\ sse'.pc = "loop") => sse'.last_keepalive_at = sse.emitted_at
     /\ sse'.last_keepalive_at # sse.last_keepalive_at =>
           sse.pc \in {"new", "data", "keepalive"} /\ sse'.pc = "loop"
     /\ sse.pc # "new" => sse.last_keepalive_at <= sse'.last_keepalive_at
  ]_vars

\* A keepalive is emitted at 30.808 s, exactly 15 s after the timer was
\* restarted at 15.808 s.
C13_Witness ==
  /\ sse.pc = "keepalive"
  /\ sse.emitted_at = 30808
  /\ sse.last_keepalive_at = 15808

(***************************************************************************)
(* C14.  Once the shutdown signal is set, the capture loop, the detection  *)
(* loop, every MJPEG loop and every SSE loop eventually terminate, and an  *)
(* MJPEG loop terminates only through its subscriber decrement.            *)
(***************************************************************************)
AllTerminated ==
  /\ cam.pc = "done"
  /\ det.pc = "done"
  /\ sse.pc \in {"new", "done"}
  /\ \A c \in Streams : streams[c].pc \in {"new", "done"}
  /\ stream_clients = 0

C14_ShutdownTerminates ==
  /\ shutdown_event ~> AllTerminated
  /\ [][\A c \in Streams :
          (streams[c].pc # "done" /\ streams'[c].pc = "done") =>
             /\ streams[c].pc = "finally"
             /\ stream_clients' = stream_clients - 1]_vars

\* After shutdown everything has stopped: the MJPEG connection and the SSE
\* connection had started, and frames and detections had been published.
C14_Witness ==
  /\ shutdown_event
  /\ AllTerminated
  /\ sse.pc = "done"
  /\ streams["s1"].pc = "done"
  /\ streams["s1"].last_seq = 2
  /\ latest_frame_seq = 2
  /\ latest_apriltag_seq >= 1

(***************************************************************************)
(* C15.  A heartbeat with a non-object body, a clientId outside the token  *)
(* pattern, an unsupported tool, or active = true without a triggerTagId   *)
(* in 1..9999 is answered with an error carrying a machine-readable code   *)
(* and leaves the client map and the controller state sequence as they     *)
(* were.                                                                   *)
(***************************************************************************)
IsRefusedStep == last' # last /\ last'.op \in {"heartbeat_rejected", "heartbeat_raised"}

C15_RejectedWithCode ==
  [][IsRefusedStep =>
        /\ last'.error \in HeartbeatErrorCodes
        /\ UNCHANGED <<controller_clients, controller_state_seq>>]_vars

\* The part of C15 the code keeps: no refused heartbeat, answered or
\* raised, touches the client map or the state sequence.
C15_RefusedLeavesState ==
  [][IsRefusedStep => UNCHANGED <<controller_clients, controller_state_seq>>]_vars

IsPlaneRequestStep == api' # api /\ api'.op = "surface_plane"
IsThresholdRequestStep == api' # api /\ api'.op = "touch_threshold"

\* A calibration request with fewer than 3 points or a point that is not
\* an object of three numbers.
MalformedPoints(request) ==
  \/ ~request.isObject \/ ~request.isList \/ Len(request.points) < 3
  \/ \E i \in 1..Len(request.points) :
        LET p == request.points[i] IN
        \/ ~p.isObject \/ p.has # {"x", "y", "z"}
        \/ \E c \in {p.x, p.y, p.z} : c.t # "int"

\* A threshold value that is not a number or is <= 0.
NotAPositiveNumber(threshold) ==
  threshold.t \notin {"int", "inf"} \/ (threshold.t = "int" /\ threshold.i <= 0)

\* C16: a calibration request with fewer than 3 points or malformed point
\* coordinates, and a threshold request whose value is not a number or is
\* <= 0, get an error outcome and leave the stored plane and the stored
\* threshold as they were.
C16_InvalidRequestsRejected ==
  [][ /\ (IsPlaneRequestStep /\ MalformedPoints(api'.request[1]))
           => (~api'.ok /\ api'.error # "" /\ UNCHANGED <<surface_plane, TOUCH_DISTANCE_THRESHOLD>>)
      /\ (IsThresholdRequestStep /\ NotAPositiveNumber(api'.request[1].threshold))
           => (~api'.ok /\ api'.error # "" /\ UNCHANGED <<surface_plane, TOUCH_DISTANCE_THRESHOLD>>)
    ]_vars

\* The calibration half of C16 taken alone.
C16_MalformedPointsRejected ==
  [][ (IsPlaneRequestStep /\ MalformedPoints(api'.request[1]))
        => (~api'.ok /\ api'.error # "" /\ UNCHANGED <<surface_plane, TOUCH_DISTANCE_THRESHOLD>>)
    ]_vars

\* C17: the touch distance threshold is strictly greater than 0 in every
\* reachable state.
C17_ThresholdPositive ==
  \/ TOUCH_DISTANCE_THRESHOLD.k = "inf"
  \/ (TOUCH_DISTANCE_THRESHOLD.k = "num" /\ TOUCH_DISTANCE_THRESHOLD.v > 0)

\* The second half of C17: a threshold request never changes the stored
\* plane, and a calibration or clear request never changes the threshold.
C17_PlaneAndThresholdIndependent ==
  [][ /\ surface_plane' # surface_plane => api'.op \in {"surface_plane", "surface_plane_delete"}
      /\ TOUCH_DISTANCE_THRESHOLD' # TOUCH_DISTANCE_THRESHOLD => api'.op = "touch_threshold"
    ]_vars

IsClearStep == api' # api /\ api'.op = "surface_plane_delete"
IsGetStep == api' # api /\ api'.op = "surface_plane_get"
IsFitStep == IsPlaneRequestStep /\ api'.ok
IsMapStep == det.pc = "map" /\ det' # det
\* The detection a mapping step appends to the pass's result.
Mapped == det'.result.detections[Len(det'.result.detections)]

\* C18: a clear removes the plane and only a successful fit stores one
\* again; while no plane is stored get() reports not-calibrated and a
\* detection mapped then carries neither surfaceDistance nor isTouch; a
\* successful fit stores the plane it answers with, and get() reports the
\* stored plane.
C18_ClearDisablesTouch ==
  [][ /\ IsClearStep => surface_plane' = None
      /\ (surface_plane = None /\ surface_plane' # None) => IsFitStep
      /\ (IsGetStep /\ surface_plane = None) => api'.body = None
      /\ (IsMapStep /\ surface_plane = None)
           => (Mapped.surfaceDistance = None /\ Mapped.isTouch = None)
      /\ IsFitStep => (surface_plane' # None /\ api'.body = surface_plane')
      /\ (IsGetStep /\ surface_plane # None) => api'.body = surface_plane
    ]_vars

\* After a fit and a clear, a detection with a pose has been mapped without
\* touch fields while the detections published before still carry them.
C18_Witness ==
  /\ surface_plane = None
  /\ det.pc = "publish"
  /\ \E i \in 1..Len(det.result.detections) :
        det.result.detections[i].pose # None /\ det.result.detections[i].isTouch = None
  /\ \E j \in 1..Len(latest_apriltags) : latest_apriltags[j].isTouch # None

\* C19: for a detection with a pose mapped while a plane (normal n, offset
\* d) is stored, isTouch is true exactly when |n.p + d| <= threshold, the
\* bound included, p being the tip when one was computed and the tag-centre
\* pose otherwise; for the plane z = 0 and the threshold 0.018 m a point at
\* z = 0.005 m is a touch and a point at z = 0.05 m is not.
C19_TouchIffWithinThreshold ==
  [][ (IsMapStep /\ Head(det.raw).pose_t # None /\ surface_plane # None) =>
        LET raw == Head(det.raw)
            p == IF raw.tip_cam # None THEN raw.tip_cam[1] ELSE raw.pose_t[1]
            n == surface_plane[1].normal
            s == n[1] * p[1] + n[2] * p[2] + n[3] * p[3] + surface_plane[1].d
            within == TOUCH_DISTANCE_THRESHOLD.k = "num"
                      /\ s <= TOUCH_DISTANCE_THRESHOLD.v /\ 0 - s <= TOUCH_DISTANCE_THRESHOLD.v
        IN /\ Mapped.isTouch = Some(within)
           /\ (n[3] # 0 /\ surface_plane[1].d = 0 /\ TOUCH_DISTANCE_THRESHOLD = Num(18000))
                => /\ p[3] = 5000 => Mapped.isTouch = Some(TRUE)
                   /\ p[3] = 50000 => Mapped.isTouch = Some(FALSE)
    ]_vars

\* A pass classified against z = 0 with the default threshold: the tip at
\* exactly 18 mm is a touch although its tag centre is 50 mm away.
C19_Witness ==
  /\ det.pc = "publish"
  /\ surface_plane # None
  /\ TOUCH_DISTANCE_THRESHOLD = Num(18000)
  /\ Len(det.result.detections) = 2
  /\ det.result.detections[1].id = 3
  /\ det.result.detections[1].isTouch = Some(TRUE)
  /\ det.result.detections[1].surfaceDistance = Some(18000)

\* The detector call of a pass returns or raises.
IsDetectCallStep == det.pc = "detect" /\ det'.pc # "detect"

\* C21: a pass asks for pose estimation only when the camera intrinsics are
\* configured; a pass whose pose call raises the ambiguous-minima error goes
\* on with a detection-only call and turns pose estimation off, records no
\* error when that call succeeds, and once pose estimation is off no pass
\* asks for it again.
C21_PoseDowngradeIsPermanent ==
  [][ /\ IsDetectCallStep =>
           /\ det'.calls[1] => camera_params
           /\ (det'.calls[1] /\ det'.raised = Some(AmbiguityMessage))
                => (det'.calls = <<TRUE, FALSE>> /\ ~det'.pose_estimation_enabled)
           /\ ~det.pose_estimation_enabled => \A i \in 1..Len(det'.calls) : ~det'.calls[i]
      /\ ~det.pose_estimation_enabled => ~det'.pose_estimation_enabled
      /\ (IsDetectPublishStep /\ det.raised = Some(AmbiguityMessage)
             /\ det.calls = <<TRUE, FALSE>> /\ det.result.kind = "ok")
           => (apriltag_error' = None /\ latest_apriltags' = det.result.detections)
    ]_vars

\* With intrinsics configured, a pass made of one detection-only call has
\* succeeded after the detections of an earlier pass were published without
\* an error.
C21_Witness ==
  /\ camera_params
  /\ det.pc = "publish"
  /\ det.calls = <<FALSE>>
  /\ det.result.kind = "ok"
  /\ apriltag_error = None
  /\ latest_apriltags # << >>

C23_LoopsSurviveErrors ==
  (cam.pc \in {"done", "raised"} \/ det.pc = "done") => shutdown_event

\* The detection half of C23 taken alone: a pass that raised records its
\* message and the loop polls again.
C23_DetectionLoopSurvives ==
  /\ [](det.pc = "done" => shutdown_event)
  /\ [][(IsDetectPublishStep /\ det.result.kind = "error")
          => (apriltag_error' = Some(det.result.message) /\ det'.pc = "poll")]_vars

\* What a snapshot step resolved: the client map it scanned, the instant it
\* used and the result it returned.
Scanned == controller_clients
ScanNow == snap'[1].now
Result == snap'[1].result

\* The entry is live at now.
LiveAt(e, now) == now - e.updatedAt <= CONTROLLER_HEARTBEAT_TTL_SEC
\* The trigger tags of the entries.
TagsOf(clients) ==
  {clients[i].triggerTagId[1] : i \in {j \in 1..Len(clients) : clients[j].triggerTagId # None}}
\* The entries that are live, on tag t and active.
ToolCandidates(clients, now, t) ==
  {i \in 1..Len(clients) :
     LiveAt(clients[i], now) /\ clients[i].triggerTagId = Some(t) /\ clients[i].active}
\* The entries that are live, on tag t and report note text, a note session
\* or a finalize tick.
ReportsNote(e) == e.noteText # EmptyText \/ e.noteSessionActive \/ e.noteFinalizeTick # 0
NoteCandidates(clients, now, t) ==
  {i \in 1..Len(clients) :
     LiveAt(clients[i], now) /\ clients[i].triggerTagId = Some(t) /\ ReportsNote(clients[i])}
\* The candidates with the greatest updatedAt.
Newest(clients, candidates) ==
  {i \in candidates : \A j \in candidates : clients[j].updatedAt <= clients[i].updatedAt}
\* The candidate scanned last.
LastOf(candidates) == CHOOSE i \in candidates : \A j \in candidates : j <= i
NoteOf(e) ==
  [text |-> e.noteText, sessionActive |-> e.noteSessionActive, finalizeTick |-> e.noteFinalizeTick]

\* C24: in every snapshot, a live client with a trigger tag that reports
\* note text, a note session or a finalize tick puts its tag into
\* remoteNoteStateByTriggerTagId whether it is active or not, and the tool
\* of a tag in activeToolByTriggerTagId is the tool of a live client on
\* that tag that is active.
C24_NoteStateIgnoresActiveFlag ==
  [][ IsSnapshotStep =>
        /\ \A i \in 1..Len(Scanned) :
              (LiveAt(Scanned[i], ScanNow) /\ Scanned[i].triggerTagId # None
                 /\ ReportsNote(Scanned[i]))
                => ToString(Scanned[i].triggerTagId[1]) \in DOMAIN Result.remoteNoteStateByTriggerTagId
        /\ \A t \in TagsOf(Scanned) :
              ToString(t) \in DOMAIN Result.activeToolByTriggerTagId
                => \E i \in 1..Len(Scanned) :
                      /\ LiveAt(Scanned[i], ScanNow)
                      /\ Scanned[i].triggerTagId = Some(t)
                      /\ Scanned[i].active
                      /\ Scanned[i].tool = Result.activeToolByTriggerTagId[ToString(t)]
    ]_vars

\* A snapshot of a single inactive client with a finalize tick on tag 7:
\* the tag has a note state and no tool.
C24_Witness ==
  /\ snap # None
  /\ last.op \in {"snapshot", "heartbeat_respond"}
  /\ Len(controller_clients) = 1
  /\ ~controller_clients[1].active
  /\ controller_clients[1].noteFinalizeTick = 5
  /\ DOMAIN snap[1].result.remoteNoteStateByTriggerTagId = {"7"}
  /\ DOMAIN snap[1].result.activeToolByTriggerTagId = {}

\* C25: in every snapshot, a tag is in activeToolByTriggerTagId exactly
\* when some live active client is on it, and its tool is then the tool of
\* one of those with the greatest updatedAt; the same holds for
\* remoteNoteStateByTriggerTagId and the live clients reporting a note.
C25_LastWriteWins ==
  [][ IsSnapshotStep =>
        /\ DOMAIN Result.activeToolByTriggerTagId
             = {ToString(t) : t \in {u \in TagsOf(Scanned) : ToolCandidates(Scanned, ScanNow, u) # {}}}
        /\ DOMAIN Result.remoteNoteStateByTriggerTagId
             = {ToString(t) : t \in {u \in TagsOf(Scanned) : NoteCandidates(Scanned, ScanNow, u) # {}}}
        /\ \A t \in TagsOf(Scanned) :
              /\ ToolCandidates(Scanned, ScanNow, t) # {}
                   => \E i \in Newest(Scanned, ToolCandidates(Scanned, ScanNow, t)) :
                         Result.activeToolByTriggerTagId[ToString(t)] = Scanned[i].tool
              /\ NoteCandidates(Scanned, ScanNow, t) # {}
                   => \E i \in Newest(Scanned, NoteCandidates(Scanned, ScanNow, t)) :
                         Result.remoteNoteStateByTriggerTagId[ToString(t)] = NoteOf(Scanned[i])
    ]_vars

\* A snapshot of two live active clients on tag 7, the first one the newer:
\* its tool is reported.
C25_Witness ==
  /\ snap # None
  /\ last.op \in {"snapshot", "heartbeat_respond"}
  /\ Len(controller_clients) = 2
  /\ \A i \in 1..2 : controller_clients[i].active /\ controller_clients[i].triggerTagId = Some(7)
  /\ controller_clients[1].updatedAt > controller_clients[2].updatedAt
  /\ controller_clients[1].tool # controller_clients[2].tool
  /\ snap[1].now = 632
  /\ snap[1].result.activeClients = 2
  /\ snap[1].result.activeToolByTriggerTagId["7"] = controller_clients[1].tool

\* C26: when several live candidates for a tag have the same greatest
\* updatedAt, the one scanned last wins; the scan follows the order of the
\* client map, where a new clientId goes last and a clientId that sends
\* another heartbeat keeps its place.
C26_LaterScannedWinsTies ==
  [][ /\ IsSnapshotStep =>
           \A t \in TagsOf(Scanned) :
              /\ ToolCandidates(Scanned, ScanNow, t) # {}
                   => Result.activeToolByTriggerTagId[ToString(t)]
                        = Scanned[LastOf(Newest(Scanned, ToolCandidates(Scanned, ScanNow, t)))].tool
              /\ NoteCandidates(Scanned, ScanNow, t) # {}
                   => Result.remoteNoteStateByTriggerTagId[ToString(t)]
                        = NoteOf(Scanned[LastOf(Newest(Scanned, NoteCandidates(Scanned, ScanNow, t)))])
      /\ IsUpsertStep =>
           LET ids(clients) == [i \in 1..Len(clients) |-> clients[i].clientId] IN
           IF \E i \in 1..Len(controller_clients) : controller_clients[i].clientId = last'.client_id
           THEN ids(controller_clients') = ids(controller_clients)
           ELSE ids(controller_clients') = Append(ids(controller_clients), last'.client_id)
    ]_vars

\* A snapshot of two live active clients on tag 7 with the same updatedAt,
\* the first of which sent its heartbeat again after the second had joined:
\* the tool of the second is reported.
C26_Witness ==
  /\ snap # None
  /\ last.op \in {"snapshot", "heartbeat_respond"}
  /\ Len(controller_clients) = 2
  /\ \A i \in 1..2 : controller_clients[i].active /\ controller_clients[i].triggerTagId = Some(7)
  /\ controller_clients[1].updatedAt = 808
  /\ controller_clients[2].updatedAt = 808
  /\ controller_clients[1].tool # controller_clients[2].tool
  /\ controller_state_seq = 2
  /\ snap[1].result.activeToolByTriggerTagId["7"] = controller_clients[2].tool

\* C27: a snapshot that follows another with no heartbeat in between, at an
\* instant at which every entry the first one kept is still live, returns
\* the same result, state sequence included; so does a second call at the
\* same instant after a first one that purged.
C27_SnapshotIdempotent ==
  [][ (IsSnapshotStep /\ snap # None
         /\ \A i \in 1..Len(Scanned) : LiveAt(Scanned[i], ScanNow))
        => Result = snap[1].result
    ]_vars

\* Every client was purged by a snapshot, and a snapshot after it, with no
\* heartbeat in between, purged nothing and reports the advanced sequence.
C27_Witness ==
  /\ snap # None
  /\ last.op = "snapshot"
  /\ last.purged = 0
  /\ controller_clients = << >>
  /\ controller_state_seq >= 2
  /\ snap[1].result.seq = controller_state_seq
  /\ snap[1].result.activeClients = 0

\* C28: in every snapshot activeDrawTriggerTagIds is strictly ascending and
\* holds t exactly when activeToolByTriggerTagId maps the decimal string of
\* t to "draw"; every value of that map is a supported tool and every key
\* the decimal string of a trigger tag between 1 and 9999.
C28_DrawIdsMatchToolMap ==
  snap # None =>
    LET r == snap[1].result
        ids == r.activeDrawTriggerTagIds
        tags == {t \in TagsOf(controller_clients) \cup {ids[i] : i \in 1..Len(ids)} :
                    TRIGGER_TAG_ID_MIN <= t /\ t <= TRIGGER_TAG_ID_MAX}
    IN /\ \A i \in 1..(Len(ids) - 1) : ids[i] < ids[i + 1]
       /\ \A i \in 1..Len(ids) :
             /\ ToString(ids[i]) \in DOMAIN r.activeToolByTriggerTagId
             /\ r.activeToolByTriggerTagId[ToString(ids[i])] = "draw"
       /\ \A k \in DOMAIN r.activeToolByTriggerTagId :
             /\ r.activeToolByTriggerTagId[k] \in CONTROLLER_SUPPORTED_TOOLS
             /\ \E t \in tags : k = ToString(t)
             /\ r.activeToolByTriggerTagId[k] = "draw"
                  => \E i \in 1..Len(ids) : k = ToString(ids[i])

\* A snapshot with draw on the tags 3 and 7, inserted in the order 7, 3.
C28_Witness ==
  /\ snap # None
  /\ snap[1].result.activeDrawTriggerTagIds = <<3, 7>>
  /\ Len(controller_clients) = 2
  /\ controller_clients[1].triggerTagId = Some(7)

\* C29: the frame state is published as a whole: frame, dimensions,
\* sequence, timestamp and encoded bytes change in the publication step of a
\* capture tick and in no other, and always belong to one tick; what the
\* MJPEG handler and the detection loop hold after their read is the
\* encoded bytes, or the frame, of the tick whose sequence they hold.  The
\* payload builder reads the dimensions, the sequence and the timestamp in
\* one step, hence from one such state.
C29_FramePublicationAtomic ==
  /\ [](latest_frame_seq > 0 =>
          /\ latest_frame = Some(FrameOfTick(latest_frame_seq))
          /\ latest_jpeg \in {None, Some(Jpeg(FrameOfTick(latest_frame_seq)))}
          /\ latest_frame_width = Width(FrameOfTick(latest_frame_seq))
          /\ latest_frame_height = Height(FrameOfTick(latest_frame_seq)))
  /\ [](\A c \in Streams : streams[c].pc = "yield"
          => streams[c].frame_bytes = Some(Jpeg(FrameOfTick(streams[c].last_seq))))
  /\ [](det.frame # None => det.frame = Some(FrameOfTick(det.seq)))
  /\ [][ frameVars' # frameVars =>
           /\ IsCapturePublishStep
           /\ latest_frame' = cam.frame
           /\ latest_frame_seq' = latest_frame_seq + 1
           /\ latest_frame_updated_at' = clock
       ]_vars

\* The second tick is published and being sent to the MJPEG client while
\* the detection loop still works on the frame of the first.
C29_Witness ==
  /\ latest_frame_seq = 2
  /\ streams["s1"].pc = "yield"
  /\ streams["s1"].last_seq = 2
  /\ streams["s1"].frame_bytes = Some(Jpeg("f2"))
  /\ det.pc = "detect"
  /\ det.seq = 1
  /\ det.frame = Some("f1")

\* C30: a failed pass leaves the published detections and their timestamp
\* as they were, next to the error it records; a successful pass publishes
\* its detections and a null error together; in no step are the detections
\* or their timestamp replaced while the error stays or becomes non-null.
C30_FreshDetectionsExcludeError ==
  [][ /\ (IsDetectPublishStep /\ det.result.kind = "error")
           => (apriltag_error' # None
               /\ latest_apriltags' = latest_apriltags
               /\ latest_apriltag_updated_at' = latest_apriltag_updated_at)
      /\ (IsDetectPublishStep /\ det.result.kind = "ok")
           => (latest_apriltags' = det.result.detections
               /\ latest_apriltag_updated_at' = clock
               /\ apriltag_error' = None)
      /\ (latest_apriltags' # latest_apriltags
            \/ latest_apriltag_updated_at' # latest_apriltag_updated_at)
           => (IsDetectPublishStep /\ apriltag_error' = None)
    ]_vars

\* A pass has failed after a tag was published: the detections of the
\* earlier pass are still there, with their timestamp, next to the error.
C30_Witness ==
  /\ apriltag_error # None
  /\ latest_apriltags # << >>
  /\ latest_apriltag_updated_at < clock
  /\ latest_apriltag_seq = 2
  /\ det.pc = "poll"
  /\ det.last_seq = 2

(***************************************************************************)
(* C33: the entries of the client map are sanitized.                       *)
(***************************************************************************)
\* Bodies at the edges of what the handler accepts: a clientId of 64
\* characters, a tool in another case, a trigger tag given as a string, as
\* true, as 9999 or out of range on an inactive heartbeat, a note text of
\* 500 and of 501 characters, a finalize tick below 0, given as a string
\* and above the clamp; and bodies just outside: 65 characters, a character
\* outside the alphabet, an unknown tool, an active heartbeat whose tag is
\* 0, 10000 or infinite.
SanitizeBodies ==
  { Body(JStr("x64"), JBool(TRUE), JStr(" Draw "), JStr("7"), JRep("x", 501), JBool(TRUE),
         JInt(NOTE_FINALIZE_TICK_MAX + 1)),
    Body(JStr(" a "), JNull, JNull, JInt(10000), JNull, JNull, JInt(-5)),
    Body(JStr("b"), JBool(TRUE), JStr("NOTE"), JInt(9999), JRep("y", 500), JInt(0), JStr("7")),
    Body(JStr("b"), JInt(1), JStr("eraser"), JBool(TRUE), JInt(12), JNull, JNull),
    Body(JStr("x65"), JBool(TRUE), JStr("draw"), JInt(7), JNull, JNull, JNull),
    Body(JStr("a!"), JBool(TRUE), JStr("draw"), JInt(7), JNull, JNull, JNull),
    Body(JStr("a"), JBool(TRUE), JStr("laser"), JInt(7), JNull, JNull, JNull),
    Body(JStr("a"), JBool(TRUE), JStr("draw"), JInt(0), JNull, JNull, JNull),
    Body(JStr("a"), JBool(TRUE), JStr("draw"), JInt(10000), JNull, JNull, JNull),
    Body(JStr("a"), JBool(TRUE), JStr("draw"), JInf, JNull, JNull, JNull) }

\* Three controller clients whose heartbeats lie at and beyond the limits.
SpecSanitize ==
  InitCalibrated
    /\ [][NextCtl(SanitizeBodies) \/ NextRejected(SanitizeBodies) \/ NextTick({808})]_vars

\* Whether a stored entry has the shape the handler promises.
WellFormedEntry(e) ==
  /\ OnlyTokenChars(e.clientId)
  /\ StrLen(e.clientId) \in 1..CONTROLLER_CLIENT_ID_MAX_LEN
  /\ e.tool \in CONTROLLER_SUPPORTED_TOOLS
  /\ e.triggerTagId # None => e.triggerTagId[1] \in TRIGGER_TAG_ID_MIN..TRIGGER_TAG_ID_MAX
  /\ e.active => e.triggerTagId # None
  /\ e.noteText.n \in 0..CONTROLLER_NOTE_TEXT_MAX_LEN
  /\ e.noteFinalizeTick \in 0..NOTE_FINALIZE_TICK_MAX

\* C33: after any sequence of accepted and rejected heartbeats every entry
\* of the client map has a clientId of 1 to 64 token characters, a supported
\* tool, a triggerTagId that is absent or in 1..9999 and present when active
\* is true, a note text of at most 500 characters and a finalize tick in
\* 0..1000000000.
C33_EntriesWellFormed ==
  \A i \in 1..Len(controller_clients) : WellFormedEntry(controller_clients[i])

\* A request was just refused while the map holds the 64-character client
\* with its text cut to 500 characters and its tick clamped, and an
\* inactive client stored without a trigger tag.
C33_Witness ==
  /\ last.op \in {"heartbeat_rejected", "heartbeat_raised"}
  /\ \E i \in 1..Len(controller_clients) :
        /\ controller_clients[i].clientId = "x64"
        /\ controller_clients[i].noteText.n = CONTROLLER_NOTE_TEXT_MAX_LEN
        /\ controller_clients[i].noteFinalizeTick = NOTE_FINALIZE_TICK_MAX
        /\ controller_clients[i].triggerTagId = Some(7)
  /\ \E i \in 1..Len(controller_clients) :
        /\ controller_clients[i].clientId = "a"
        /\ ~controller_clients[i].active
        /\ controller_clients[i].triggerTagId = None
        /\ controller_clients[i].noteFinalizeTick = 0

(***************************************************************************)
(* C34: the state sequence as the identity of the reconciled state.        *)
(***************************************************************************)
\* Whether two snapshot results agree in what they reconcile.
SameReconciledState(r1, r2) ==
  /\ r1.activeClients = r2.activeClients
  /\ r1.activeToolByTriggerTagId = r2.activeToolByTriggerTagId
  /\ r1.remoteNoteStateByTriggerTagId = r2.remoteNoteStateByTriggerTagId
  /\ r1.activeDrawTriggerTagIds = r2.activeDrawTriggerTagIds

\* C34: two snapshots that return the same state sequence return the same
\* activeClients, activeToolByTriggerTagId, remoteNoteStateByTriggerTagId
\* and activeDrawTriggerTagIds.  Examined on the snapshot that was returned
\* last before a heartbeat is stored and the snapshot with which the
\* handler of that heartbeat answers (lines 668-671).
C34_SeqIdentifiesState ==
  [][ \A h \in Handlers :
        (IsUpsertStep /\ snap # None /\ hb[h] = None /\ hb'[h] # None)
          => LET before == snap[1].result
                 answer == SnapshotResult(controller_clients', controller_state_seq', hb'[h][1])
             IN before.seq = answer.seq => SameReconciledState(before, answer) ]_vars

\* What does hold: a snapshot returns the sequence it leaves in the
\* variable, and while neither the map nor the instant changes, snapshots
\* with the same sequence return the same reconciled state.
C34_SameMapSameState ==
  [][ (IsSnapshotStep /\ snap # None /\ snap[1].now = snap'[1].now
         /\ snap[1].result.seq = snap'[1].result.seq)
        => SameReconciledState(snap[1].result, snap'[1].result) ]_vars

(***************************************************************************)
(* C37: the state sequence and the set of clients held.                    *)
(***************************************************************************)
\* A heartbeat that names only its client: every other field is missing, so
\* that next_state holds the defaults.
BareBody(client) == Body(JStr(client), JNull, JNull, JNull, JNull, JNull, JNull)

MembershipInstants == {0, 808}

\* Two clients that send bare heartbeats, one of them also the scenario's,
\* while their entries expire and are purged.
SpecMembership ==
  InitCalibrated
    /\ [][NextResolve({BareBody("a"), BareBody("b"), DrawBody("b")}, MembershipInstants)
            \/ NextTick(MembershipInstants)]_vars

\* C37: every step that changes the set of clientIds held in the client map
\* advances controller_state_seq: the heartbeat of a client the map does not
\* hold, whatever its fields, and every purge.
C37_MembershipChangeAdvancesSeq ==
  [][ /\ ClientIds(controller_clients') # ClientIds(controller_clients)
          => controller_state_seq' = controller_state_seq + 1
      /\ (IsUpsertStep /\ last'.client_id \notin ClientIds(controller_clients))
          => (last'.changed /\ controller_state_seq' = controller_state_seq + 1)
      /\ Len(controller_clients') < Len(controller_clients)
          => (IsSnapshotStep /\ controller_state_seq' = controller_state_seq + 1) ]_vars

\* Client a is back in the map by a bare heartbeat after the map was
\* emptied by a purge: the third advance of the sequence.
C37_Witness ==
  /\ last.op = "heartbeat_upsert"
  /\ last.client_id = "a"
  /\ last.changed
  /\ controller_state_seq = 3
  /\ Len(controller_clients) = 1
  /\ controller_clients[1] = NextState(BareBody("a"), 808)

(***************************************************************************)
(* C40: one plane and one threshold per detection pass.                    *)
(***************************************************************************)
\* The planes and thresholds the requests of SpecTouch can store.
TouchPlanes ==
  {None} \cup {Some(FittedPlane(normal, request.points)) :
                 request \in TouchPlaneRequests, normal \in {Axis(3), Negated(Axis(3))}}
TouchThresholds ==
  {Num(TOUCH_DISTANCE_THRESHOLD_DEFAULT)}
    \cup {ThresholdAsFloat(request.threshold) : request \in TouchThresholdRequests}

\* The detector's output a published detection was mapped from.
RawOf(detection) == RawDetection(detection.id, detection.pose, detection.tipPose)

\* Whether the list is what one plane and one threshold give for every
\* detection in it.
ClassifiedAlike(detections) ==
  \E plane \in TouchPlanes, threshold \in TouchThresholds :
    \A i \in 1..Len(detections) :
      detections[i] = map_detection(RawOf(detections[i]), plane, threshold)

\* C40: the detections published together by one pass are touch-classified
\* against one surface plane and one threshold: never some of them against
\* the plane or threshold stored before a concurrent calibration, clear or
\* threshold request and the others against the one stored after it.
C40_PassUsesOnePlane == ClassifiedAlike(latest_apriltags)

\* What does hold: each detection by itself is classified against a plane
\* and a threshold that were stored while its pass ran.
C40_EachDetectionClassified ==
  \A i \in 1..Len(latest_apriltags) : ClassifiedAlike(<<latest_apriltags[i]>>)

(***************************************************************************)
(* The tasks and their locks.                                              *)
(***************************************************************************)
\* The loops and the tasks that share a lock with them.
LoopTasks == {"capture", "detection", "mjpeg", "plane", "atexit", "payload"}
SpecLoopLocks ==
  InitCalibrated /\ [][NextTasks(LoopTasks) \/ NextCalls(LoopTasks) \/ NextSnapshots(LoopTasks)]_vars

\* Both loops and one handler of each kind, with one controller client.
LockTasks == {"capture", "detection", "payload", "mjpeg", "plane", "heartbeat1"}
SpecLocks ==
  InitCalibrated
    /\ [][NextTasks(LockTasks) \/ NextCalls(LockTasks) \/ NextSnapshots(LockTasks)
            \/ NextHeartbeats(LockTasks, TaskBodies)]_vars

\* The operations of C31: the device read, the JPEG encode and the
\* conversion and detector call of a pass.
HeavyCalls == {"read", "imencode", "detect"}
Loops == {"capture", "detection"}
InProgress(t, what) == AtOp(t, "call") /\ Instr(t).arg = what

\* C31: in the capture loop and the detection loop no lock is held while a
\* device read, a JPEG encode or a marker detection is in progress, and a
\* with block of the loops contains no call: once a loop holds a lock its
\* next step leaves the block.
C31_NoLockAcrossHeavyWork ==
  \A t \in Loops :
    /\ \A what \in HeavyCalls : InProgress(t, what) => HeldBy(t) = {}
    /\ HeldBy(t) # {} => AtOp(t, "exit")

\* The read and the detection are in progress while the MJPEG handler is
\* inside its frame_lock block and the exit hook inside its camera_lock block.
C31_Witness ==
  /\ InProgress("capture", "read")
  /\ InProgress("detection", "detect")
  /\ held["frame_lock"] = "mjpeg"
  /\ held["camera_lock"] = "atexit"

(***************************************************************************)
(* C39: no nested locks.                                                   *)
(***************************************************************************)
\* A task that waits at a with statement whose lock another task holds.
Blocked(t) == AtOp(t, "enter") /\ held[Instr(t).arg] # ""

\* C39: no task holds two locks at the same time, and none waits for a
\* lock while it holds one; so whenever a task waits for a lock, the task
\* that holds it is running and not waiting, so it goes on to release it: no
\* interleaving of the capture loop, the detection loop, heartbeats,
\* snapshots, MJPEG and plane handlers ends in a deadlock.
C39_NoNestedLocks ==
  \A t \in Tasks :
    /\ Cardinality(HeldBy(t)) <= 1
    /\ AtOp(t, "enter") => HeldBy(t) = {}
    /\ Blocked(t) => (~Blocked(held[Instr(t).arg]) /\ task[held[Instr(t).arg]].pc # 0)

\* Four locks are held by four tasks while the payload builder waits for
\* frame_lock and the heartbeat handler for controller_lock.
C39_Witness ==
  /\ held["frame_lock"] = "capture"
  /\ held["surface_plane_lock"] = "detection"
  /\ held["stream_clients_lock"] = "mjpeg"
  /\ Blocked("plane")
  /\ held["controller_lock"] = "heartbeat1"
  /\ Blocked("payload")
  /\ task["payload"].pc = 8

(***************************************************************************)
(* C35, C36: heartbeats and snapshots handled at the same time.            *)
(***************************************************************************)
\* Two heartbeat handlers and one payload builder serve client a while
\* 0.632 s and 0.808 s pass.
RaceTasks == {"heartbeat1", "heartbeat2", "payload"}
RaceInstants == {632, 808}
SpecRace ==
  InitCalibrated
    /\ [][NextTasks(RaceTasks) \/ NextSnapshots(RaceTasks)
            \/ NextHeartbeats(RaceTasks, TaskBodies)
            \/ NextTick(RaceInstants)]_vars

\* Task t has run the statement it was at.
Ran(t, what) == AtOp(t, what) /\ task'[t].pc # task[t].pc

\* The entries of the map as a set.
Entries(clients) == {clients[i] : i \in 1..Len(clients)}

\* C35: upserts and scan-plus-purge exclude each other.  A task is at its
\* upsert, scan or purge only inside its controller_lock block; the purge
\* finds the map as the scan classified it and removes exactly the entries
\* that are expired at the snapshot's instant; an upsert leaves its entry
\* in the map; and an entry leaves the map or changes only by a purge that
\* classified it as expired or by an upsert of the same client.
C35_UpsertAndPurgeAtomic ==
  [][ \A t \in Tasks :
        /\ (AtOp(t, "upsert") \/ AtOp(t, "scan") \/ AtOp(t, "purge"))
              => held["controller_lock"] = t
        /\ Ran(t, "purge")
              => /\ task[t].acc[1].expired_ids = ExpiredIds(controller_clients, task[t].now)
                 /\ Entries(controller_clients') =
                      {e \in Entries(controller_clients) : ~IsExpired(e.updatedAt, task[t].now)}
        /\ Ran(t, "upsert")
              => NextState(task[t].body[1], task[t].now) \in Entries(controller_clients')
        /\ ~(Ran(t, "upsert") \/ Ran(t, "purge")) /\ task'[t] # task[t]
              => controller_clients' = controller_clients
        /\ Ran(t, "upsert")
              => \A e \in Entries(controller_clients) \ Entries(controller_clients') :
                    e.clientId = sanitize_controller_client_id(task[t].body[1].clientId)[1]
    ]_vars

\* The payload builder has classified client a as expired and is about to
\* purge it while a heartbeat that refreshes a, read off the clock at the
\* same instant, waits for controller_lock.
C35_Witness ==
  /\ AtOp("payload", "purge")
  /\ task["payload"].acc[1].expired_ids = <<"a">>
  /\ Blocked("heartbeat1")
  /\ task["heartbeat1"].pc = 2
  /\ task["heartbeat1"].now = task["payload"].now

\* C36: while a client stays in the map its stored updatedAt never
\* decreases, also when two heartbeats of the client are handled at the
\* same time.
C36_UpdatedAtNeverDecreases ==
  [][ \A e \in Entries(controller_clients), f \in Entries(controller_clients') :
        e.clientId = f.clientId => f.updatedAt >= e.updatedAt ]_vars

\* What does hold: an upsert stores the instant its handler read off the
\* clock before it waited for the lock, which is never in the future.
C36_StoresHandlersReading ==
  [][ \A t \in HeartbeatTasks :
        Ran(t, "upsert")
          => \E f \in Entries(controller_clients') :
                /\ f.clientId = sanitize_controller_client_id(task[t].body[1].clientId)[1]
                /\ f.updatedAt = task[t].now
                /\ f.updatedAt <= clock ]_vars

(***************************************************************************)
(* C32: a heartbeat beside the loops.                                      *)
(***************************************************************************)
\* The loops, one heartbeat handler and one payload builder.  The handler
\* threads are scheduled again and again, and a handler that waits for a
\* lock which is released again and again gets it; nothing is assumed of
\* the loops, which may stay in a device read or in a detection for ever.
HeartbeatLiveTasks == {"capture", "detection", "heartbeat1", "payload"}
SpecHeartbeat ==
  InitCalibrated
    /\ [][NextTasks(HeartbeatLiveTasks) \/ NextCalls(HeartbeatLiveTasks)
            \/ NextSnapshots(HeartbeatLiveTasks)
            \/ NextHeartbeats(HeartbeatLiveTasks, TaskBodies)]_vars
    /\ \A t \in {"heartbeat1", "payload"} : WF_vars(TaskRuns(t)) /\ SF_vars(TaskAcquire(t))

\* C32: a heartbeat handler takes controller_lock and no other lock, it
\* never waits for a lock that a loop holds, and once called it runs to its
\* end whatever the capture loop and the detection loop do, also when they
\* never return from the device read and from the detection.
C32_HeartbeatIndependentOfLoops ==
  /\ [](\A h \in HeartbeatTasks :
          /\ HeldBy(h) \subseteq {"controller_lock"}
          /\ AtOp(h, "enter") => Instr(h).arg = "controller_lock"
          /\ Blocked(h) => held[Instr(h).arg] \notin Loops)
  /\ (task["heartbeat1"].pc # 0) ~> (task["heartbeat1"].pc = 0)

\* The handler is at the end of its response snapshot while the capture
\* loop is in the device read and the detection loop in a detection.
C32_Witness ==
  /\ InProgress("capture", "read")
  /\ InProgress("detection", "detect")
  /\ task["heartbeat1"].pc = Len(api_controller_heartbeat)
  /\ held["controller_lock"] = "heartbeat1"
  /\ Len(controller_clients) = 1

(***************************************************************************)
(* C38: what an open SSE connection is sent in the end.                    *)
(***************************************************************************)
\* event_stream while neither shutdown nor disconnect happens and less than
\* the keepalive period passes.
NextSseOpen(instants) ==
  \/ SseStart
  \/ SseReadDetections
  \/ \E now \in instants : SseSnapshot(now)
  \/ SseSendData
  \/ SseResumeData
  \/ SseSleep

LiveInstants == {0, 808}

\* One SSE connection beside the capture loop, the detection loop and one
\* controller client whose entry expires.  The generator's thread is
\* scheduled again and again, the client reads every event it is sent, and
\* again and again an iteration takes its snapshot at the instant the clock
\* shows; nothing is assumed of the loops, the heartbeats and the clock.
SpecSseLive ==
  InitCalibrated
    /\ [][NextSseOpen(LiveInstants)
            \/ (\E h \in Handlers, now \in LiveInstants : HeartbeatUpsert(h, DrawBody("a"), now))
            \/ (\E h \in Handlers : HeartbeatRespond(h))
            \/ CaptureRead("f1") \/ CaptureSample \/ CapturePublish
            \/ DetectIdle \/ DetectTake \/ DetectOk(<< >>) \/ DetectPublish
            \/ NextTick(LiveInstants)]_vars
    /\ WF_vars(SseReadDetections) /\ SF_vars(SseSnapshot(clock)) /\ WF_vars(SseSendData)
    /\ WF_vars(SseResumeData) /\ WF_vars(SseSleep)

\* The connection is open: its generator has started.
SseOpen == sse.pc \notin {"new", "done"}

\* A data event has been sent with a pair of at least <<n, m>>.
SentAtLeast(n, m) == sse.sent # None /\ sse.sent[1][1] >= n /\ sse.sent[1][2] >= m

\* The map holds client_id with the timestamp updated_at, which is past
\* the TTL at the instant the clock shows.
HoldsExpired(client_id, updated_at) ==
  \E i \in 1..Len(controller_clients) :
    /\ controller_clients[i].clientId = client_id
    /\ controller_clients[i].updatedAt = updated_at
    /\ IsExpired(updated_at, clock)

\* C38: on an open SSE connection, without shutdown and disconnect: the
\* connection stays open, neither sequence and neither component of the
\* pairs sent ever decreases, and the step that drops an expired entry
\* advances the controller sequence; so "always eventually (the sequence
\* has not reached n, or a data event with at least n was sent)" says that
\* every advance to n is followed by such a data event, for the detection
\* and for the controller sequence; and an entry past its TTL is always
\* purged or stored anew in the end, its purge being an advance that is
\* delivered as every other.
C38_AdvancesReachSubscribers ==
  /\ [][/\ SseOpen => SseOpen'
        /\ latest_apriltag_seq' >= latest_apriltag_seq
        /\ controller_state_seq' >= controller_state_seq
        /\ (sse.sent # None /\ sse'.sent # sse.sent)
              => (sse'.sent[1][1] >= sse.sent[1][1] /\ sse'.sent[1][2] >= sse.sent[1][2])
        /\ (HoldsExpired("a", 0) /\ "a" \notin ClientIds(controller_clients'))
              => controller_state_seq' = controller_state_seq + 1]_vars
  /\ \A n \in 1..MaxFrameSeq :
        []<>((SseOpen /\ latest_apriltag_seq >= n) => SentAtLeast(n, 0))
  /\ \A m \in 1..(MaxCtlSeq + 1) :
        []<>((SseOpen /\ controller_state_seq >= m) => SentAtLeast(0, m))
  /\ []<>(SseOpen => ~HoldsExpired("a", 0))

\* The data event that reports the purge of client a is on its way: it
\* carries the second advance of the controller sequence and a detection
\* sequence that has advanced as well.
C38_Witness ==
  /\ sse.pc = "data"
  /\ sse.sent = Some(<<1, 2>>)
  /\ controller_clients = << >>
  /\ controller_state_seq = 2
  /\ last.op = "snapshot"
  /\ last.purged = 1
====
